---- MODULE Spec2Model ----
(***************************************************************************)
(* Solify: analysis of an IDL and an execution order into TestMetadata.    *)
(* The pipeline of analyze_dependencies is modelled stage by stage:        *)
(* account registry, dependency graph, account order, account flow, PDA    *)
(* detection, setup requirements, setup flow, test cases.                  *)
(***************************************************************************)
EXTENDS Integers, Sequences, FiniteSets, TLC

(***************************************************************************)
(* Bounds of the model.                                                    *)
(***************************************************************************)
MaxInstructions == 2
MaxAccountsPerIdl == 3
MaxOrderLen == 2
MaxArgs == 2

(***************************************************************************)
(* Strings.  Names are TLA+ strings; the string operations of the code     *)
(* (contains, split, to_lowercase, format!) work on their characters.      *)
(***************************************************************************)
Chars ==
  "" :> <<>> @@
  "authority" :> <<"a", "u", "t", "h", "o", "r", "i", "t", "y">> @@
  "user" :> <<"u", "s", "e", "r">> @@
  "vault" :> <<"v", "a", "u", "l", "t">> @@
  "entry" :> <<"e", "n", "t", "r", "y">> @@
  "CreateEntry" :> <<"C", "r", "e", "a", "t", "e", "E", "n", "t", "r", "y">> @@
  "init_vault" :> <<"i", "n", "i", "t", "_", "v", "a", "u", "l", "t">> @@
  "update" :> <<"u", "p", "d", "a", "t", "e">> @@
  "init" :> <<"i", "n", "i", "t">> @@
  "journal_entry" :>
    <<"j", "o", "u", "r", "n", "a", "l", "_", "e", "n", "t", "r", "y">> @@
  "create_journal_entry" :>
    <<"c", "r", "e", "a", "t", "e", "_", "j", "o", "u", "r", "n", "a", "l", "_", "e", "n", "t", "r", "y">> @@
  "update_journal_entry" :>
    <<"u", "p", "d", "a", "t", "e", "_", "j", "o", "u", "r", "n", "a", "l", "_", "e", "n", "t", "r", "y">> @@
  "delete_journal_entry" :>
    <<"d", "e", "l", "e", "t", "e", "_", "j", "o", "u", "r", "n", "a", "l", "_", "e", "n", "t", "r", "y">> @@
  "has_one = vault" :> <<"h", "a", "s", "_", "o", "n", "e", " ", "=", " ",
                         "v", "a", "u", "l", "t">>

Upper == "A" :> "a" @@ "C" :> "c" @@ "D" :> "d" @@ "E" :> "e" @@ "F" :> "f" @@
         "I" :> "i" @@ "L" :> "l" @@ "O" :> "o" @@ "P" :> "p" @@ "S" :> "s"

\* str::to_lowercase
ToLowercase(s) == [i \in 1..Len(s) |-> IF s[i] \in DOMAIN Upper THEN Upper[s[i]] ELSE s[i]]

\* str::find: the 1-based position of the first occurrence of t in s, 0 if none
Find(s, t) ==
  LET hits == {i \in 1..(Len(s) - Len(t) + 1) : SubSeq(s, i, i + Len(t) - 1) = t}
  IN IF hits = {} THEN 0 ELSE CHOOSE i \in hits : \A j \in hits : i <= j

\* str::contains
Contains(s, t) == Find(s, t) # 0

\* the string with the given characters, if it is a name the model knows
NoString == "<none>"
FromChars(cs) ==
  IF \E n \in DOMAIN Chars : Chars[n] = cs
    THEN CHOOSE n \in DOMAIN Chars : Chars[n] = cs
    ELSE NoString

KwInit == <<"i", "n", "i", "t">>
KwCreate == <<"c", "r", "e", "a", "t", "e">>
KwInitialize == <<"i", "n", "i", "t", "i", "a", "l", "i", "z", "e">>
KwAuthority == <<"a", "u", "t", "h", "o", "r", "i", "t", "y">>
KwOwner == <<"o", "w", "n", "e", "r">>
KwUser == <<"u", "s", "e", "r">>
KwVault == <<"v", "a", "u", "l", "t">>
KwHasOne == <<"h", "a", "s", "_", "o", "n", "e">>
KwHasOneEq == <<"h", "a", "s", "_", "o", "n", "e", " ", "=", " ">>
KwConstraint == <<"c", "o", "n", "s", "t", "r", "a", "i", "n", "t">>
KwClose == <<"c", "l", "o", "s", "e">>
KwRealloc == <<"r", "e", "a", "l", "l", "o", "c">>
KwAccount == <<"a", "c", "c", "o", "u", "n", "t">>
KwPool == <<"p", "o", "o", "l">>
KwMarket == <<"m", "a", "r", "k", "e", "t">>
KeypairPrefix == <<"C", "r", "e", "a", "t", "e", " ", "k", "e", "y", "p", "a", "i", "r", " ",
                   "f", "o", "r", " ">>
FundPrefix == <<"F", "u", "n", "d", " ">>
FundSuffix == <<" ", "w", "i", "t", "h", " ", "S", "O", "L", " ", "f", "o", "r", " ",
                "t", "r", "a", "n", "s", "a", "c", "t", "i", "o", "n", "s">>
InitializePrefix == <<"I", "n", "i", "t", "i", "a", "l", "i", "z", "e", " ">>
PdaSuffix == <<" ", "P", "D", "A">>
ForSeparator == <<"f", "o", "r", " ">>

\* s.split(sep).nth(1): the piece between the first and the second occurrence of sep
SplitSecond(s, sep) ==
  LET start == Find(s, sep)
      rest == SubSeq(s, start + Len(sep), Len(s))
      next == Find(rest, sep)
  IN IF next = 0 THEN rest ELSE SubSeq(rest, 1, next - 1)

\* s.split(' ').next(): the piece before the first space
SplitFirst(s) ==
  LET sp == Find(s, <<" ">>)
  IN IF sp = 0 THEN s ELSE SubSeq(s, 1, sp - 1)

(***************************************************************************)
(* The IDL (types/idl_data.rs).                                            *)
(***************************************************************************)
None == "None"
NoPda == [present |-> FALSE, seeds |-> <<>>]
Pda(seeds) == [present |-> TRUE, seeds |-> seeds]

IdlSeed(kind, path, value) == [kind |-> kind, path |-> path, value |-> value]

IdlAccountItem(name, is_mut, is_signer, docs, pda) ==
  [name |-> name, is_mut |-> is_mut, is_signer |-> is_signer, docs |-> docs, pda |-> pda]

(***************************************************************************)
(* Account registry (dependency_analyzer.rs).                              *)
(***************************************************************************)
\* the seeds of a PDA descriptor, translated
RECURSIVE ParseSeeds(_)
ParseSeeds(idl_seeds) ==
  IF idl_seeds = <<>> THEN <<>>
  ELSE
    LET idl_seed == Head(idl_seeds)
        seed_type ==
          CASE idl_seed.kind \in {"const", "constant"} -> "Static"
            [] idl_seed.kind \in {"arg", "argument"} -> "Argument"
            [] idl_seed.kind = "account" -> "AccountKey"
            [] OTHER -> "Static"
        path == Chars[idl_seed.path]
        source ==
          IF Contains(path, KwAuthority) \/ Contains(path, KwOwner) THEN "Authority"
          ELSE IF Contains(path, KwUser) THEN "UserAccount"
          ELSE IF Contains(path, KwVault) THEN "Vault"
          ELSE "Custom"
    IN <<[seed_type |-> seed_type, value |-> idl_seed.path, source |-> source]>>
         \o ParseSeeds(Tail(idl_seeds))

\* extract_has_one_value: the first word after "has_one = "
ExtractHasOneValue(doc) ==
  LET start == Find(doc, KwHasOneEq)
  IN IF start = 0 THEN None
     ELSE LET rest == SubSeq(doc, start + Len(KwHasOneEq), Len(doc))
              sp == Find(rest, <<" ">>)
              word == IF sp = 0 THEN rest ELSE SubSeq(rest, 1, sp - 1)
          IN IF word = <<>> THEN None ELSE FromChars(word)

\* the instruction name carries one of the keywords init, create, initialize
NameInfersInit(instruction_name) ==
  LET instruction_name_lower == ToLowercase(Chars[instruction_name])
  IN \/ Contains(instruction_name_lower, KwInit)
     \/ Contains(instruction_name_lower, KwCreate)
     \/ Contains(instruction_name_lower, KwInitialize)

\* the constraints and the initializer the docs of an account item add
RECURSIVE ParseDocs(_, _, _, _)
ParseDocs(docs, instruction_name, initialized_by, constraints) ==
  IF docs = <<>> THEN [initialized_by |-> initialized_by, constraints |-> constraints]
  ELSE
    LET doc == Chars[Head(docs)]
        is_init == Contains(doc, KwInit) /\ initialized_by = None
        c1 == IF is_init
                THEN Append(constraints, [constraint_type |-> "Init", value |-> None])
                ELSE constraints
        c2 == IF Contains(doc, KwHasOne)
                THEN Append(c1, [constraint_type |-> "HasOne", value |-> ExtractHasOneValue(doc)])
                ELSE c1
        c3 == IF Contains(doc, KwOwner)
                THEN Append(c2, [constraint_type |-> "Owner", value |-> Head(docs)])
                ELSE c2
        c4 == IF Contains(doc, KwConstraint) /\ ~Contains(doc, KwHasOne)
                THEN Append(c3, [constraint_type |-> "Constraint", value |-> Head(docs)])
                ELSE c3
        c5 == IF Contains(doc, KwClose)
                THEN Append(c4, [constraint_type |-> "Close", value |-> Head(docs)])
                ELSE c4
        c6 == IF Contains(doc, KwRealloc)
                THEN Append(c5, [constraint_type |-> "Realloc", value |-> Head(docs)])
                ELSE c5
    IN IF doc = <<>>
         THEN ParseDocs(Tail(docs), instruction_name, initialized_by, constraints)
         ELSE ParseDocs(Tail(docs), instruction_name,
                        IF is_init THEN instruction_name ELSE initialized_by, c6)

ParseAccountInfo(account_item, instruction) ==
  LET is_pda == account_item.pda.present
      seeds == IF is_pda THEN ParseSeeds(account_item.pda.seeds) ELSE <<>>
      c_seeds == IF is_pda
                   THEN <<[constraint_type |-> "Seeds", value |-> ToString(Len(seeds)) \o " seeds"]>>
                   ELSE <<>>
      c_mut == IF account_item.is_mut
                 THEN Append(c_seeds, [constraint_type |-> "Mut", value |-> None])
                 ELSE c_seeds
      c_signer == IF account_item.is_signer
                    THEN Append(c_mut, [constraint_type |-> "Signer", value |-> None])
                    ELSE c_mut
      inferred == NameInfersInit(instruction.name)
      c_init == IF inferred /\ account_item.is_mut
                  THEN Append(c_signer, [constraint_type |-> "Init", value |-> None])
                  ELSE c_signer
      by_docs == ParseDocs(account_item.docs, instruction.name,
                           IF inferred THEN instruction.name ELSE None, c_init)
  IN [name |-> account_item.name,
      is_pda |-> is_pda,
      is_signer |-> account_item.is_signer,
      is_mut |-> account_item.is_mut,
      initialized_by |-> by_docs.initialized_by,
      seeds |-> seeds,
      used_in |-> <<instruction.name>>,
      constraints |-> by_docs.constraints]

\* AccountRegistry::get_account: the index of the first account of that name, 0 if none
IndexOfAccount(accounts, name) ==
  LET hits == {i \in 1..Len(accounts) : accounts[i].name = name}
  IN IF hits = {} THEN 0 ELSE CHOOSE i \in hits : \A j \in hits : i <= j

AddOrUpdateAccount(accounts, account) ==
  LET k == IndexOfAccount(accounts, account.name)
  IN IF k = 0 THEN Append(accounts, account)
     ELSE [accounts EXCEPT ![k] =
             [@ EXCEPT !.used_in = @ \o account.used_in,
                       !.initialized_by =
                          IF account.initialized_by # None THEN account.initialized_by ELSE @,
                       !.seeds = IF account.seeds # <<>> THEN account.seeds ELSE @]]

RECURSIVE ProcessInstructionAccounts(_, _, _)
ProcessInstructionAccounts(account_items, instruction, accounts) ==
  IF account_items = <<>> THEN accounts
  ELSE ProcessInstructionAccounts(Tail(account_items), instruction,
         AddOrUpdateAccount(accounts, ParseAccountInfo(Head(account_items), instruction)))

RECURSIVE BuildAccountRegistry(_, _)
BuildAccountRegistry(instructions, accounts) ==
  IF instructions = <<>> THEN accounts
  ELSE BuildAccountRegistry(Tail(instructions),
         ProcessInstructionAccounts(Head(instructions).accounts, Head(instructions), accounts))

(***************************************************************************)
(* Dependency graph (dependency_analyzer.rs).                              *)
(***************************************************************************)
\* Iterator::position over a sequence of nodes: the first node initializing the account
PositionInitializing(nodes, account_name) ==
  LET hits == {j \in 1..Len(nodes) :
                 \E k \in 1..Len(nodes[j].initializes) : nodes[j].initializes[k] = account_name}
  IN IF hits = {} THEN 0 ELSE CHOOSE j \in hits : \A h \in hits : j <= h

\* the first instruction of the IDL with that name, 0 if none
IndexOfInstruction(instructions, instruction_name) ==
  LET hits == {i \in 1..Len(instructions) : instructions[i].name = instruction_name}
  IN IF hits = {} THEN 0 ELSE CHOOSE i \in hits : \A j \in hits : i <= j

RECURSIVE CreateInstructionNodeFrom(_, _, _, _)
CreateInstructionNodeFrom(account_items, instruction, accounts, node) ==
  IF account_items = <<>> THEN node
  ELSE
    LET k == IndexOfAccount(accounts, Head(account_items).name)
        next == IF k = 0 THEN node
                ELSE IF accounts[k].initialized_by = instruction.name
                  THEN [node EXCEPT !.initializes = Append(@, accounts[k].name)]
                  ELSE [node EXCEPT !.requires = Append(@, accounts[k].name)]
    IN CreateInstructionNodeFrom(Tail(account_items), instruction, accounts, next)

CreateInstructionNode(instruction, accounts) ==
  CreateInstructionNodeFrom(instruction.accounts, instruction, accounts,
    [name |-> instruction.name, initializes |-> <<>>, requires |-> <<>>])

\* a variant that looks for the initializing node among all nodes, not only the earlier ones
RECURSIVE InitializationEdgesOverAllNodes(_, _, _)
InitializationEdgesOverAllNodes(nodes, i, requires) ==
  IF requires = <<>> THEN <<>>
  ELSE
    LET dep_node_index == PositionInitializing(nodes, Head(requires))
        rest == InitializationEdgesOverAllNodes(nodes, i, Tail(requires))
    IN IF dep_node_index = 0 THEN rest
       ELSE <<[from |-> nodes[dep_node_index].name, to |-> nodes[i].name,
               dependency_type |-> "Initialization", account |-> Head(requires)]>> \o rest

\* the Initialization edges of node i, one per required account an earlier node initializes
RECURSIVE InitializationEdges(_, _, _)
InitializationEdges(nodes, i, requires) ==
  IF requires = <<>> THEN <<>>
  ELSE
    LET dep_node_index == PositionInitializing(SubSeq(nodes, 1, i - 1), Head(requires))
        rest == InitializationEdges(nodes, i, Tail(requires))
    IN IF dep_node_index = 0 THEN rest
       ELSE <<[from |-> nodes[dep_node_index].name, to |-> nodes[i].name,
               dependency_type |-> "Initialization", account |-> Head(requires)]>> \o rest

RECURSIVE SeedEdgesOfSeeds(_, _, _, _)
SeedEdgesOfSeeds(nodes, i, account_name, seeds) ==
  IF seeds = <<>> THEN <<>>
  ELSE
    LET seed == Head(seeds)
        dep_node_index == PositionInitializing(SubSeq(nodes, 1, i - 1), seed.value)
        rest == SeedEdgesOfSeeds(nodes, i, account_name, Tail(seeds))
    IN IF seed.source \in {"UserAccount", "Vault"} /\ dep_node_index # 0
         THEN <<[from |-> nodes[dep_node_index].name, to |-> nodes[i].name,
                 dependency_type |-> "SeedDependency", account |-> account_name]>> \o rest
         ELSE rest

RECURSIVE SeedEdges(_, _, _, _)
SeedEdges(nodes, i, initializes, accounts) ==
  IF initializes = <<>> THEN <<>>
  ELSE
    LET k == IndexOfAccount(accounts, Head(initializes))
        mine == IF k = 0 THEN <<>>
                ELSE SeedEdgesOfSeeds(nodes, i, Head(initializes), accounts[k].seeds)
    IN mine \o SeedEdges(nodes, i, Tail(initializes), accounts)

RECURSIVE EdgesFrom(_, _, _)
EdgesFrom(nodes, i, accounts) ==
  IF i > Len(nodes) THEN <<>>
  ELSE InitializationEdges(nodes, i, nodes[i].requires)
         \o SeedEdges(nodes, i, nodes[i].initializes, accounts)
         \o EdgesFrom(nodes, i + 1, accounts)

\* DFS over the edges with a visited set and a recursion stack
RECURSIVE HasCycle(_, _, _, _)
RECURSIVE HasCycleEdges(_, _, _, _, _)
HasCycleEdges(edges, node_name, k, visited, recursion_stack) ==
  IF k > Len(edges)
    THEN [cycle |-> FALSE, visited |-> visited,
          recursion_stack |-> recursion_stack \ {node_name}]
  ELSE IF edges[k].from # node_name
    THEN HasCycleEdges(edges, node_name, k + 1, visited, recursion_stack)
  ELSE IF edges[k].to \in recursion_stack
    THEN [cycle |-> TRUE, visited |-> visited, recursion_stack |-> recursion_stack]
  ELSE IF edges[k].to \notin visited
    THEN LET below == HasCycle(edges, edges[k].to, visited, recursion_stack)
         IN IF below.cycle THEN below
            ELSE HasCycleEdges(edges, node_name, k + 1, below.visited, below.recursion_stack)
  ELSE HasCycleEdges(edges, node_name, k + 1, visited, recursion_stack)

HasCycle(edges, node_name, visited, recursion_stack) ==
  HasCycleEdges(edges, node_name, 1, visited \cup {node_name},
                recursion_stack \cup {node_name})

RECURSIVE DetectFrom(_, _, _, _)
DetectFrom(graph, i, visited, recursion_stack) ==
  IF i > Len(graph.nodes) THEN FALSE
  ELSE IF graph.nodes[i].name \in visited
    THEN DetectFrom(graph, i + 1, visited, recursion_stack)
  ELSE LET r == HasCycle(graph.edges, graph.nodes[i].name, visited, recursion_stack)
       IN r.cycle \/ DetectFrom(graph, i + 1, r.visited, r.recursion_stack)

\* TRUE when detect_circular_dependencies returns CircularDependency
DetectCircularDependencies(graph) == DetectFrom(graph, 1, {}, {})

RECURSIVE CreateNodes(_, _, _)
CreateNodes(instructions, execution_order, accounts) ==
  IF execution_order = <<>> THEN <<>>
  ELSE <<CreateInstructionNode(
           instructions[IndexOfInstruction(instructions, Head(execution_order))], accounts)>>
         \o CreateNodes(instructions, Tail(execution_order), accounts)

Ok(value) == [ok |-> TRUE, value |-> value]
Err(error) == [ok |-> FALSE, error |-> error]

\* a variant that skips the names the IDL lacks instead of failing on them
BuildDependencyGraphSkippingMissing(instructions, execution_order, accounts) ==
  LET Present(name) == IndexOfInstruction(instructions, name) # 0
      nodes == CreateNodes(instructions, SelectSeq(execution_order, Present), accounts)
      graph == [nodes |-> nodes, edges |-> EdgesFrom(nodes, 1, accounts)]
  IN IF DetectCircularDependencies(graph) THEN Err("CircularDependency") ELSE Ok(graph)

BuildDependencyGraph(instructions, execution_order, accounts) ==
  IF \E k \in 1..Len(execution_order) :
       IndexOfInstruction(instructions, execution_order[k]) = 0
    THEN Err("InvalidInstructionOrder")
  ELSE
    LET nodes == CreateNodes(instructions, execution_order, accounts)
        graph == [nodes |-> nodes, edges |-> EdgesFrom(nodes, 1, accounts)]
    IN IF DetectCircularDependencies(graph) THEN Err("CircularDependency") ELSE Ok(graph)

(***************************************************************************)
(* Account order (account_order.rs).                                       *)
(***************************************************************************)
U8Max == 255

\* u8::saturating_add(1)
\* a variant that wraps around at the 8-bit maximum
WrappingInc(n) == (n + 1) % (U8Max + 1)

SaturatingInc(n) == IF n >= U8Max THEN U8Max ELSE n + 1

NodeNames(graph) == {graph.nodes[i].name : i \in 1..Len(graph.nodes)}

\* the in-degree map: one key per node name, one count per edge into it
InDegree(graph) ==
  [n \in NodeNames(graph) |->
     Cardinality({k \in 1..Len(graph.edges) : graph.edges[k].to = n})]

\* the orders in which a hash map or set may iterate over the keys in S
IterationOrders(S) ==
  {q \in [1..Cardinality(S) -> S] : \A i, j \in 1..Cardinality(S) : q[i] = q[j] => i = j}

\* the queues the iteration over in_degree may start the sort with
InitialQueues(graph) ==
  IterationOrders({n \in NodeNames(graph) : InDegree(graph)[n] = 0})

\* one pass over the edges for the node just emitted
RECURSIVE Relax(_, _, _, _, _)
Relax(edges, k, node, in_degree, queue) ==
  IF k > Len(edges) THEN [in_degree |-> in_degree, queue |-> queue]
  ELSE IF edges[k].from = node
    THEN LET degree == in_degree[edges[k].to] - 1
         IN Relax(edges, k + 1, node, [in_degree EXCEPT ![edges[k].to] = degree],
                  IF degree = 0 THEN Append(queue, edges[k].to) ELSE queue)
  ELSE Relax(edges, k + 1, node, in_degree, queue)

RECURSIVE Kahn(_, _, _, _)
Kahn(edges, in_degree, queue, sorted) ==
  IF queue = <<>> THEN sorted
  ELSE LET node == Head(queue)
           r == Relax(edges, 1, node, in_degree, Tail(queue))
       IN Kahn(edges, r.in_degree, r.queue, Append(sorted, node))

GetSortedInstructions(graph, queue) ==
  LET sorted == Kahn(graph.edges, InDegree(graph), queue, <<>>)
  IN IF Len(sorted) # Len(graph.nodes) THEN Err("CircularDependency") ELSE Ok(sorted)

RECURSIVE SeedDependencies(_)
SeedDependencies(seeds) ==
  IF seeds = <<>> THEN <<>>
  ELSE (IF Head(seeds).seed_type = "AccountKey" THEN <<Head(seeds).value>> ELSE <<>>)
         \o SeedDependencies(Tail(seeds))

RECURSIVE ConstraintDependencies(_)
ConstraintDependencies(constraints) ==
  IF constraints = <<>> THEN <<>>
  ELSE (IF Head(constraints).constraint_type = "HasOne" /\ Head(constraints).value # None
          THEN <<Head(constraints).value>> ELSE <<>>)
         \o ConstraintDependencies(Tail(constraints))

GetAccountDependencies(account) ==
  SeedDependencies(account.seeds) \o ConstraintDependencies(account.constraints)

AccountDependency(account, depends_on, must_be_initialized, initialization_order) ==
  [account_name |-> account.name,
   depends_on |-> depends_on,
   is_pda |-> account.is_pda,
   is_signer |-> account.is_signer,
   is_mut |-> account.is_mut,
   must_be_initialized |-> must_be_initialized,
   initialization_order |-> initialization_order]

\* the accounts one instruction node initializes
RECURSIVE PushInitialized(_, _, _)
PushInitialized(initializes, accounts, acc) ==
  IF initializes = <<>> THEN acc
  ELSE LET k == IndexOfAccount(accounts, Head(initializes))
       IN PushInitialized(Tail(initializes), accounts,
            IF k = 0 THEN acc
            ELSE [deps |-> Append(acc.deps,
                             AccountDependency(accounts[k], GetAccountDependencies(accounts[k]),
                                               accounts[k].initialized_by # None, acc.order)),
                  order |-> SaturatingInc(acc.order)])

RECURSIVE PushSorted(_, _, _, _)
PushSorted(sorted_instructions, graph, accounts, acc) ==
  IF sorted_instructions = <<>> THEN acc
  ELSE LET hits == {i \in 1..Len(graph.nodes) : graph.nodes[i].name = Head(sorted_instructions)}
           i == CHOOSE i \in hits : \A j \in hits : i <= j
       IN PushSorted(Tail(sorted_instructions), graph, accounts,
            IF hits = {} THEN acc
            ELSE PushInitialized(graph.nodes[i].initializes, accounts, acc))

\* a variant that visits the registry from its last account to its first
RECURSIVE PushExternalBackwards(_, _, _)
PushExternalBackwards(accounts, k, acc) ==
  IF k > Len(accounts) THEN acc
  ELSE LET account == accounts[Len(accounts) + 1 - k]
       IN PushExternalBackwards(accounts, k + 1,
            IF /\ account.initialized_by = None
               /\ ~\E d \in 1..Len(acc.deps) : acc.deps[d].account_name = account.name
              THEN [deps |-> Append(acc.deps, AccountDependency(account, <<>>, FALSE, acc.order)),
                    order |-> SaturatingInc(acc.order)]
              ELSE acc)

\* the accounts no instruction initializes
RECURSIVE PushExternal(_, _, _)
PushExternal(accounts, k, acc) ==
  IF k > Len(accounts) THEN acc
  ELSE PushExternal(accounts, k + 1,
         IF /\ accounts[k].initialized_by = None
            /\ ~\E d \in 1..Len(acc.deps) : acc.deps[d].account_name = accounts[k].name
           THEN [deps |-> Append(acc.deps, AccountDependency(accounts[k], <<>>, FALSE, acc.order)),
                 order |-> SaturatingInc(acc.order)]
           ELSE acc)

GenerateAccountDependencies(graph, accounts, queue) ==
  LET sorted_instructions == GetSortedInstructions(graph, queue)
  IN IF ~sorted_instructions.ok THEN sorted_instructions
     ELSE Ok(PushExternal(accounts, 1,
               PushSorted(sorted_instructions.value, graph, accounts,
                          [deps |-> <<>>, order |-> 0])).deps)

\* the map account_name -> depends_on: a later entry of the same name replaces an earlier
FlowGraph(dependencies) ==
  [n \in {dependencies[i].account_name : i \in 1..Len(dependencies)} |->
     LET hits == {i \in 1..Len(dependencies) : dependencies[i].account_name = n}
     IN dependencies[CHOOSE i \in hits : \A j \in hits : j <= i].depends_on]

RECURSIVE HasCircularDependency(_, _, _, _)
RECURSIVE HasCircularDependencyFrom(_, _, _, _, _)
HasCircularDependencyFrom(account, deps, graph, visited, recursion_stack) ==
  IF deps = <<>>
    THEN [cycle |-> FALSE, visited |-> visited,
          recursion_stack |-> recursion_stack \ {account}]
  ELSE IF Head(deps) \notin visited
    THEN LET below == HasCircularDependency(Head(deps), graph, visited, recursion_stack)
         IN IF below.cycle THEN below
            ELSE HasCircularDependencyFrom(account, Tail(deps), graph,
                                           below.visited, below.recursion_stack)
  ELSE IF Head(deps) \in recursion_stack
    THEN [cycle |-> TRUE, visited |-> visited, recursion_stack |-> recursion_stack]
  ELSE HasCircularDependencyFrom(account, Tail(deps), graph, visited, recursion_stack)

\* a variant without a recursion stack of its own: every visited account counts as on it
HasCircularDependencyAmongVisited(account, graph, visited, recursion_stack) ==
  HasCircularDependencyFrom(account,
    IF account \in DOMAIN graph THEN graph[account] ELSE <<>>,
    graph, visited \cup {account}, visited \cup {account})

HasCircularDependency(account, graph, visited, recursion_stack) ==
  HasCircularDependencyFrom(account,
    IF account \in DOMAIN graph THEN graph[account] ELSE <<>>,
    graph, visited \cup {account}, recursion_stack \cup {account})

RECURSIVE FlowFrom(_, _, _, _)
FlowFrom(keys, graph, visited, recursion_stack) ==
  IF keys = <<>> THEN FALSE
  ELSE IF Head(keys) \in visited THEN FlowFrom(Tail(keys), graph, visited, recursion_stack)
  ELSE LET r == HasCircularDependency(Head(keys), graph, visited, recursion_stack)
       IN r.cycle \/ FlowFrom(Tail(keys), graph, r.visited, r.recursion_stack)

\* validate_account_flow, iterating over the keys of the map in the order keys
ValidateAccountFlow(dependencies, keys) ==
  IF FlowFrom(keys, FlowGraph(dependencies), {}, {})
    THEN Err("CircularDependency") ELSE Ok(TRUE)

(***************************************************************************)
(* PDA detection (pda_detector.rs).                                        *)
(***************************************************************************)
BaseSpace == 8

EstimateAccountSpace(account) ==
  LET name == ToLowercase(Chars[account.name])
  IN IF Contains(name, KwUser) \/ Contains(name, KwAccount) THEN BaseSpace + 128
     ELSE IF Contains(name, KwVault) THEN BaseSpace + 256
     ELSE IF Contains(name, KwPool) THEN BaseSpace + 512
     ELSE IF Contains(name, KwMarket) THEN BaseSpace + 1024
     ELSE BaseSpace + 64

CreatePdaInit(account, program_id) ==
  [account_name |-> account.name,
   seeds |-> [i \in 1..Len(account.seeds) |->
                [seed_type |-> account.seeds[i].seed_type, value |-> account.seeds[i].value]],
   program_id |-> program_id,
   space |-> EstimateAccountSpace(account)]

\* a variant that creates a PdaInit for every account of the registry
RECURSIVE CollectEveryAccount(_, _)
CollectEveryAccount(accounts, program_id) ==
  IF accounts = <<>> THEN <<>>
  ELSE <<CreatePdaInit(Head(accounts), program_id)>>
         \o CollectEveryAccount(Tail(accounts), program_id)

RECURSIVE CollectPdas(_, _)
CollectPdas(accounts, program_id) ==
  IF accounts = <<>> THEN <<>>
  ELSE (IF Head(accounts).is_pda THEN <<CreatePdaInit(Head(accounts), program_id)>> ELSE <<>>)
         \o CollectPdas(Tail(accounts), program_id)

\* per PDA, the values of the AccountKey seeds of its registry account
PdaDependencies(pda_inits, accounts) ==
  [i \in 1..Len(pda_inits) |->
     SeedDependencies(accounts[IndexOfAccount(accounts, pda_inits[i].account_name)].seeds)]

\* the first PDA whose dependency list contains the name
PositionContaining(dependencies, dep_name) ==
  LET hits == {i \in 1..Len(dependencies) :
                 \E k \in 1..Len(dependencies[i]) : dependencies[i][k] = dep_name}
  IN IF hits = {} THEN 0 ELSE CHOOSE i \in hits : \A j \in hits : i <= j

RECURSIVE VisitPda(_, _, _)
RECURSIVE VisitPdaDeps(_, _, _, _)
VisitPdaDeps(index, deps, dependencies, acc) ==
  IF deps = <<>> THEN [visited |-> acc.visited, sorted |-> Append(acc.sorted, index)]
  ELSE LET dep_index == PositionContaining(dependencies, Head(deps))
       IN VisitPdaDeps(index, Tail(deps), dependencies,
            IF dep_index # 0 /\ dep_index \notin acc.visited
              THEN VisitPda(dep_index, dependencies, acc)
              ELSE acc)

VisitPda(index, dependencies, acc) ==
  VisitPdaDeps(index, dependencies[index], dependencies,
               [visited |-> acc.visited \cup {index}, sorted |-> acc.sorted])

RECURSIVE SortPdasFrom(_, _, _)
SortPdasFrom(i, dependencies, acc) ==
  IF i > Len(dependencies) THEN acc.sorted
  ELSE SortPdasFrom(i + 1, dependencies,
         IF i \in acc.visited THEN acc ELSE VisitPda(i, dependencies, acc))

SortPdasByDependencies(pda_inits, accounts) ==
  LET sorted_indices == SortPdasFrom(1, PdaDependencies(pda_inits, accounts),
                                     [visited |-> {}, sorted |-> <<>>])
  IN [k \in 1..Len(sorted_indices) |-> pda_inits[sorted_indices[k]]]

DetectPdas(accounts, program_id) ==
  Ok(SortPdasByDependencies(CollectPdas(accounts, program_id), accounts))

(***************************************************************************)
(* Setup requirements (setup_generator.rs).                                *)
(***************************************************************************)
SetupRequirement(requirement_type, description, dependencies) ==
  [requirement_type |-> requirement_type, description |-> description,
   dependencies |-> dependencies]

RECURSIVE SelectDependencies(_, _)
SelectDependencies(account_dependencies, keep) ==
  IF account_dependencies = <<>> THEN <<>>
  ELSE (IF keep[Head(account_dependencies)] THEN <<Head(account_dependencies)>> ELSE <<>>)
         \o SelectDependencies(Tail(account_dependencies), keep)

\* a variant that keeps every name of depends_on, tracked or not
TrackedDependenciesUnfiltered(depends_on, account_dependencies) == depends_on

\* the names of depends_on that are names of tracked accounts
RECURSIVE TrackedDependencies(_, _)
TrackedDependencies(depends_on, account_dependencies) ==
  IF depends_on = <<>> THEN <<>>
  ELSE (IF \E i \in 1..Len(account_dependencies) :
              account_dependencies[i].account_name = Head(depends_on)
          THEN <<Head(depends_on)>> ELSE <<>>)
         \o TrackedDependencies(Tail(depends_on), account_dependencies)

\* a variant that emits each signer's FundAccount ahead of the CreateKeypair requirements
EmitSetupRequirementsFundFirst(account_dependencies) ==
  LET signer_accounts ==
        SelectDependencies(account_dependencies,
          [ad \in {account_dependencies[i] : i \in 1..Len(account_dependencies)} |->
             ad.is_signer /\ ~ad.is_pda])
      pda_accounts ==
        SelectDependencies(account_dependencies,
          [ad \in {account_dependencies[i] : i \in 1..Len(account_dependencies)} |->
             ad.is_pda /\ ad.must_be_initialized])
  IN [i \in 1..Len(signer_accounts) |->
        SetupRequirement("FundAccount",
          FundPrefix \o Chars[signer_accounts[i].account_name] \o FundSuffix,
          <<signer_accounts[i].account_name>>)]
     \o [i \in 1..Len(signer_accounts) |->
        SetupRequirement("CreateKeypair",
          KeypairPrefix \o Chars[signer_accounts[i].account_name], <<>>)]
     \o [i \in 1..Len(pda_accounts) |->
        SetupRequirement("InitializePda",
          InitializePrefix \o Chars[pda_accounts[i].account_name] \o PdaSuffix,
          TrackedDependencies(pda_accounts[i].depends_on, account_dependencies))]

\* the requirements in the order they are emitted, before sorting
EmitSetupRequirements(account_dependencies) ==
  LET signer_accounts ==
        SelectDependencies(account_dependencies,
          [ad \in {account_dependencies[i] : i \in 1..Len(account_dependencies)} |->
             ad.is_signer /\ ~ad.is_pda])
      pda_accounts ==
        SelectDependencies(account_dependencies,
          [ad \in {account_dependencies[i] : i \in 1..Len(account_dependencies)} |->
             ad.is_pda /\ ad.must_be_initialized])
  IN [i \in 1..Len(signer_accounts) |->
        SetupRequirement("CreateKeypair",
          KeypairPrefix \o Chars[signer_accounts[i].account_name], <<>>)]
     \o [i \in 1..Len(signer_accounts) |->
        SetupRequirement("FundAccount",
          FundPrefix \o Chars[signer_accounts[i].account_name] \o FundSuffix,
          <<signer_accounts[i].account_name>>)]
     \o [i \in 1..Len(pda_accounts) |->
        SetupRequirement("InitializePda",
          InitializePrefix \o Chars[pda_accounts[i].account_name] \o PdaSuffix,
          TrackedDependencies(pda_accounts[i].depends_on, account_dependencies))]

\* graph.keys().find(..): the first index, in the iteration order keys, whose
\* description contains the name
FindRequirement(requirements, keys, dep_name) ==
  LET hits == {p \in 1..Len(keys) : Contains(requirements[keys[p]].description, Chars[dep_name])}
  IN IF hits = {} THEN 0 ELSE keys[CHOOSE p \in hits : \A q \in hits : p <= q]

RECURSIVE VisitRequirement(_, _, _, _)
RECURSIVE VisitRequirementDeps(_, _, _, _, _)
VisitRequirementDeps(index, deps, requirements, keys, acc) ==
  IF deps = <<>> THEN [visited |-> acc.visited, sorted |-> Append(acc.sorted, index)]
  ELSE LET dep_index == FindRequirement(requirements, keys, Head(deps))
       IN VisitRequirementDeps(index, Tail(deps), requirements, keys,
            IF dep_index # 0 /\ dep_index \notin acc.visited
              THEN VisitRequirement(dep_index, requirements, keys, acc)
              ELSE acc)

VisitRequirement(index, requirements, keys, acc) ==
  VisitRequirementDeps(index, requirements[index].dependencies, requirements, keys,
                       [visited |-> acc.visited \cup {index}, sorted |-> acc.sorted])

RECURSIVE SortRequirementsFrom(_, _, _, _)
SortRequirementsFrom(i, requirements, keys, acc) ==
  IF i > Len(requirements) THEN acc.sorted
  ELSE SortRequirementsFrom(i + 1, requirements, keys,
         IF i \in acc.visited THEN acc ELSE VisitRequirement(i, requirements, keys, acc))

\* sort_setup_requirements; keys is the iteration order of the index map
SortSetupRequirements(requirements, keys) ==
  LET sorted_indices == SortRequirementsFrom(1, requirements, keys,
                                             [visited |-> {}, sorted |-> <<>>])
  IN [k \in 1..Len(sorted_indices) |-> requirements[sorted_indices[k]]]

GenerateSetupRequirements(account_dependencies, keys) ==
  Ok(SortSetupRequirements(EmitSetupRequirements(account_dependencies), keys))

\* the iteration orders of the index map of sort_setup_requirements
RequirementKeyOrders(account_dependencies) ==
  IterationOrders(1..Len(EmitSetupRequirements(account_dependencies)))

ExtractTargetFromDescription(description) ==
  IF Contains(description, ForSeparator)
    THEN [some |-> TRUE, target |-> SplitSecond(description, ForSeparator)]
  ELSE IF Contains(description, InitializePrefix)
    THEN [some |-> TRUE, target |-> SplitFirst(SplitSecond(description, InitializePrefix))]
  ELSE [some |-> FALSE, target |-> <<>>]

\* a variant that marks a requirement's own target satisfied before testing its dependencies
RECURSIVE ValidateSetupFromTargetFirst(_, _)
ValidateSetupFromTargetFirst(requirements, satisfied_dependencies) ==
  IF requirements = <<>> THEN Ok(TRUE)
  ELSE LET requirement == Head(requirements)
           target == ExtractTargetFromDescription(requirement.description)
           satisfied == IF target.some THEN satisfied_dependencies \cup {target.target}
                        ELSE satisfied_dependencies
       IN IF \E k \in 1..Len(requirement.dependencies) :
               Chars[requirement.dependencies[k]] \notin satisfied
            THEN Err("DependencyAnalysisFailed")
            ELSE ValidateSetupFromTargetFirst(Tail(requirements), satisfied)

RECURSIVE ValidateSetupFrom(_, _)
ValidateSetupFrom(requirements, satisfied_dependencies) ==
  IF requirements = <<>> THEN Ok(TRUE)
  ELSE LET requirement == Head(requirements)
           target == ExtractTargetFromDescription(requirement.description)
       IN IF \E k \in 1..Len(requirement.dependencies) :
               Chars[requirement.dependencies[k]] \notin satisfied_dependencies
            THEN Err("DependencyAnalysisFailed")
            ELSE ValidateSetupFrom(Tail(requirements),
                   IF target.some THEN satisfied_dependencies \cup {target.target}
                   ELSE satisfied_dependencies)

ValidateSetupFlow(requirements) == ValidateSetupFrom(requirements, {})

(***************************************************************************)
(* Test cases (test_case_generator.rs).                                    *)
(***************************************************************************)
UnsignedTypes == {"U8", "U16", "U32", "U64", "U128"}
SignedTypes == {"I8", "I16", "I32", "I64", "I128"}

ParseArgumentType(field) ==
  CASE field.field_type = "u8" -> "U8"
    [] field.field_type = "u16" -> "U16"
    [] field.field_type = "u32" -> "U32"
    [] field.field_type = "u64" -> "U64"
    [] field.field_type = "u128" -> "U128"
    [] field.field_type = "i8" -> "I8"
    [] field.field_type = "i16" -> "I16"
    [] field.field_type = "i32" -> "I32"
    [] field.field_type = "i64" -> "I64"
    [] field.field_type = "i128" -> "I128"
    [] field.field_type = "bool" -> "Bool"
    [] field.field_type = "string" -> "String"
    [] field.field_type = "publicKey" -> "Pubkey"
    [] OTHER -> "VecType"

Constraint(kind, value) == [kind |-> kind, value |-> value]

\* a variant that infers Min{0} alone for the unsigned integer types
ExtractConstraintsWithoutNonZero(field) ==
  CASE field.field_type \in {"u8", "u16", "u32", "u64", "u128"} ->
         <<Constraint("Min", 0)>>
    [] field.field_type = "string" ->
         <<Constraint("MinLength", 1), Constraint("MaxLength", 100)>>
    [] OTHER -> <<>>

ExtractConstraintsFromDocs(field) ==
  CASE field.field_type \in {"u8", "u16", "u32", "u64", "u128"} ->
         <<Constraint("Min", 0), Constraint("NonZero", 0)>>
    [] field.field_type = "string" ->
         <<Constraint("MinLength", 1), Constraint("MaxLength", 100)>>
    [] OTHER -> <<>>

ParseArguments(args) ==
  [i \in 1..Len(args) |->
     [name |-> args[i].name,
      arg_type |-> ParseArgumentType(args[i]),
      constraints |-> ExtractConstraintsFromDocs(args[i]),
      is_optional |-> FALSE]]

Valid(argument_name, description) ==
  [argument_name |-> argument_name, valid |-> TRUE, description |-> description,
   reason |-> None]

Invalid(argument_name, description, reason) ==
  [argument_name |-> argument_name, valid |-> FALSE, description |-> description,
   reason |-> reason]

Success(state_changes) ==
  [success |-> TRUE, state_changes |-> state_changes, error_code |-> None,
   error_message |-> <<>>]

Failure(error_code, error_message) ==
  [success |-> FALSE, state_changes |-> <<>>, error_code |-> error_code,
   error_message |-> error_message]

TestCase(test_type, description, argument_values, expected_outcome) ==
  [test_type |-> test_type, description |-> description,
   argument_values |-> argument_values, expected_outcome |-> expected_outcome]

CreateBasicPositiveCase(instruction_name, arguments) ==
  TestCase("Positive", <<instruction_name, " - valid inputs">>,
    [i \in 1..Len(arguments) |->
       Valid(arguments[i].name,
         CASE arguments[i].arg_type \in UnsignedTypes -> "1000"
           [] arguments[i].arg_type \in SignedTypes -> "500"
           [] arguments[i].arg_type = "Bool" -> "true"
           [] arguments[i].arg_type = "String" -> "\"test_value\""
           [] arguments[i].arg_type = "Pubkey" -> "authority.publicKey"
           [] OTHER -> "/* valid value */")],
    Success(<<"Account state updated successfully", "Instruction executed without errors">>))

RECURSIVE GenerateBoundaryCases(_, _)
GenerateBoundaryCases(argument, constraints) ==
  IF constraints = <<>> THEN <<>>
  ELSE
    LET constraint == Head(constraints)
        mine ==
          CASE constraint.kind = "Min" ->
                 <<TestCase("Positive", <<argument.name, " - minimum value">>,
                     <<Valid(argument.name, ToString(constraint.value))>>,
                     Success(<<"Minimum value accepted">>))>>
            [] constraint.kind = "Max" ->
                 <<TestCase("Positive", <<argument.name, " - maximum value">>,
                     <<Valid(argument.name, ToString(constraint.value))>>,
                     Success(<<"Maximum value accepted">>))>>
            [] OTHER -> <<>>
    IN mine \o GenerateBoundaryCases(argument, Tail(constraints))

RECURSIVE AllBoundaryCases(_)
AllBoundaryCases(arguments) ==
  IF arguments = <<>> THEN <<>>
  ELSE GenerateBoundaryCases(Head(arguments), Head(arguments).constraints)
         \o AllBoundaryCases(Tail(arguments))

\* a variant that returns the boundary cases before the baseline case
GeneratePositiveCasesBoundaryFirst(instruction_name, arguments) ==
  AllBoundaryCases(arguments) \o <<CreateBasicPositiveCase(instruction_name, arguments)>>

GeneratePositiveCases(instruction_name, arguments) ==
  <<CreateBasicPositiveCase(instruction_name, arguments)>> \o AllBoundaryCases(arguments)

CreateConstraintViolationCase(instruction_name, argument, constraint) ==
  CASE constraint.kind = "Min" ->
         <<TestCase("NegativeBoundary",
             <<instruction_name, " - ", argument.name, " below minimum">>,
             <<Invalid(argument.name, ToString(constraint.value - 1),
                       <<"Below minimum value of ", ToString(constraint.value)>>)>>,
             Failure("ConstraintViolation",
                     <<argument.name, " must be at least ", ToString(constraint.value)>>))>>
    [] constraint.kind = "Max" ->
         <<TestCase("NegativeBoundary",
             <<instruction_name, " - ", argument.name, " above maximum">>,
             <<Invalid(argument.name, ToString(constraint.value + 1),
                       <<"Above maximum value of ", ToString(constraint.value)>>)>>,
             Failure("ConstraintViolation",
                     <<argument.name, " must be at most ", ToString(constraint.value)>>))>>
    [] constraint.kind = "NonZero" ->
         <<TestCase("NegativeConstraint",
             <<instruction_name, " - ", argument.name, " is zero">>,
             <<Invalid(argument.name, "0", <<"Must be non-zero">>)>>,
             Failure("ZeroAmount", <<argument.name, " cannot be zero">>))>>
    [] OTHER -> <<>>

RECURSIVE ConstraintViolationCases(_, _, _)
ConstraintViolationCases(instruction_name, argument, constraints) ==
  IF constraints = <<>> THEN <<>>
  ELSE CreateConstraintViolationCase(instruction_name, argument, Head(constraints))
         \o ConstraintViolationCases(instruction_name, argument, Tail(constraints))

GenerateNumericNegativeCases(instruction_name, argument) ==
  <<TestCase("NegativeOverflow", <<instruction_name, " - ", argument.name, " overflow">>,
      <<Invalid(argument.name, "u64::MAX", <<"Potential arithmetic overflow">>)>>,
      Failure("Overflow", <<"Arithmetic overflow">>)),
    TestCase("NegativeType", <<instruction_name, " - ", argument.name, " negative value">>,
      <<Invalid(argument.name, "-1", <<"Unsigned type cannot be negative">>)>>,
      Failure("InvalidType", <<"Unsigned integer cannot be negative">>))>>

GenerateStringNegativeCases(instruction_name, argument) ==
  <<TestCase("NegativeNull", <<instruction_name, " - ", argument.name, " empty string">>,
      <<Invalid(argument.name, "\"\"", <<"String cannot be empty">>)>>,
      Failure("EmptyString", <<"String cannot be empty">>)),
    TestCase("NegativeBoundary", <<instruction_name, " - ", argument.name, " too long">>,
      <<Invalid(argument.name, "\"a\".repeat(1000)", <<"Exceeds maximum length">>)>>,
      Failure("StringTooLong", <<"String exceeds maximum length">>))>>

GeneratePubkeyNegativeCases(instruction_name, argument) ==
  <<TestCase("NegativeType", <<instruction_name, " - ", argument.name, " invalid pubkey">>,
      <<Invalid(argument.name, "Keypair.generate().publicKey", <<"Account not initialized">>)>>,
      Failure("AccountNotInitialized", <<"Account has not been initialized">>))>>

GenerateArgumentNegativeCases(instruction_name, argument) ==
  ConstraintViolationCases(instruction_name, argument, argument.constraints)
    \o (CASE argument.arg_type \in UnsignedTypes ->
               GenerateNumericNegativeCases(instruction_name, argument)
           [] argument.arg_type = "String" ->
               GenerateStringNegativeCases(instruction_name, argument)
           [] argument.arg_type = "Pubkey" ->
               GeneratePubkeyNegativeCases(instruction_name, argument)
           [] OTHER -> <<>>)

CreateCombinedNegativeCase(instruction_name, arguments) ==
  TestCase("NegativeConstraint", <<instruction_name, " - all arguments invalid">>,
    [i \in 1..Len(arguments) |->
       Invalid(arguments[i].name, "invalid", <<"Multiple validation failures">>)],
    Failure(None, <<"Multiple validation errors">>))

RECURSIVE AllArgumentNegativeCases(_, _)
AllArgumentNegativeCases(instruction_name, arguments) ==
  IF arguments = <<>> THEN <<>>
  ELSE GenerateArgumentNegativeCases(instruction_name, Head(arguments))
         \o AllArgumentNegativeCases(instruction_name, Tail(arguments))

GenerateNegativeCases(instruction_name, arguments) ==
  AllArgumentNegativeCases(instruction_name, arguments)
    \o (IF Len(arguments) > 1
          THEN <<CreateCombinedNegativeCase(instruction_name, arguments)>> ELSE <<>>)

GenerateInstructionTestCases(instruction) ==
  LET arguments == ParseArguments(instruction.args)
  IN [instruction_name |-> instruction.name,
      arguments |-> arguments,
      positive_cases |-> GeneratePositiveCases(instruction.name, arguments),
      negative_cases |-> GenerateNegativeCases(instruction.name, arguments)]

\* the loop of generate_test_cases: the first missing name ends it with an error
RECURSIVE GenerateTestCasesFrom(_, _, _)
GenerateTestCasesFrom(instructions, execution_order, all_test_cases) ==
  IF execution_order = <<>> THEN Ok(all_test_cases)
  ELSE LET i == IndexOfInstruction(instructions, Head(execution_order))
       IN IF i = 0 THEN Err("InvalidInstructionOrder")
          ELSE GenerateTestCasesFrom(instructions, Tail(execution_order),
                 Append(all_test_cases, GenerateInstructionTestCases(instructions[i])))

\* a variant that skips the names the IDL lacks instead of failing on them
GenerateTestCasesSkippingMissing(instructions, execution_order) ==
  LET Present(name) == IndexOfInstruction(instructions, name) # 0
  IN GenerateTestCasesFrom(instructions, SelectSeq(execution_order, Present), <<>>)

GenerateTestCases(instructions, execution_order) ==
  GenerateTestCasesFrom(instructions, execution_order, <<>>)

(***************************************************************************)
(* The inputs: IDLs over a small catalogue of names and account items, and *)
(* execution orders over the instruction names (a name the IDL lacks and a *)
(* repeated name included).                                                *)
(***************************************************************************)
InstructionNames == {"CreateEntry", "init_vault", "update"}
ProgramId == "program"

AccountItems ==
  { IdlAccountItem("authority", TRUE, TRUE, <<>>, NoPda),
    IdlAccountItem("user", TRUE, FALSE, <<>>, NoPda),
    IdlAccountItem("user", FALSE, FALSE, <<"init">>, NoPda),
    IdlAccountItem("user", TRUE, FALSE, <<"has_one = vault">>, NoPda),
    IdlAccountItem("user", TRUE, FALSE, <<>>, Pda(<<IdlSeed("account", "authority", "")>>)),
    IdlAccountItem("vault", FALSE, FALSE, <<>>, NoPda),
    IdlAccountItem("vault", TRUE, FALSE, <<>>, Pda(<<IdlSeed("account", "user", "")>>)),
    IdlAccountItem("vault", TRUE, FALSE, <<>>,
                   Pda(<<IdlSeed("const", "", "entry"), IdlSeed("account", "authority", "")>>)) }

\* the arguments of the catalogue's instructions
ArgsOf(name) ==
  CASE name = "CreateEntry" -> <<[name |-> "amount", field_type |-> "u64"]>>
    [] name = "init_vault" -> <<[name |-> "title", field_type |-> "string"],
                                [name |-> "owner", field_type |-> "publicKey"]>>
    [] OTHER -> <<>>

SeqsUpTo(S, n) == UNION {[1..k -> S] : k \in 0..n}

RECURSIVE CountAccounts(_)
CountAccounts(instructions) ==
  IF instructions = <<>> THEN 0
  ELSE Len(Head(instructions).accounts) + CountAccounts(Tail(instructions))

IdlInstructions ==
  {[name |-> n, accounts |-> a, args |-> ArgsOf(n)] :
     n \in InstructionNames, a \in SeqsUpTo(AccountItems, MaxAccountsPerIdl - 1)}

Idls ==
  {i \in UNION {[1..k -> IdlInstructions] : k \in 1..MaxInstructions} :
     /\ \A a, b \in 1..Len(i) : i[a].name = i[b].name => a = b
     /\ CountAccounts(i) <= MaxAccountsPerIdl}

ExecutionOrders == UNION {[1..k -> InstructionNames] : k \in 1..MaxOrderLen}

(***************************************************************************)
(* The state.                                                              *)
(***************************************************************************)
VARIABLES idl, execution_order, pc, account_registry, dependency_graph,
          sorted_instructions, account_dependencies, pda_init_sequence, setup_requirements, test_cases,
          outcome, previous,
          \* generate_account_dependencies: the position of its loops and its ordinal
          loop_index, initialization_order,
          \* the accounts of the program, and the calls that updated the user's
          idl_storage, user_config, test_metadata_config, generations,
          \* select_instruction_order_interactive: its input and its locals
          instructions, selected_instructions, available_instructions, cursor

order_loop == <<loop_index, initialization_order>>
program_accounts == <<idl_storage, user_config, test_metadata_config, generations>>
selector == <<instructions, selected_instructions, available_instructions, cursor>>
elsewhere == <<order_loop, program_accounts, selector>>

vars == <<idl, execution_order, pc, account_registry, dependency_graph,
          sorted_instructions, account_dependencies, pda_init_sequence, setup_requirements, test_cases,
          outcome, previous, elsewhere>>

NoAccount == [initialized |-> FALSE]

NoOrderLoop == loop_index = 0 /\ initialization_order = 0

NoProgramAccounts ==
  /\ idl_storage = NoAccount
  /\ user_config = NoAccount
  /\ test_metadata_config = NoAccount
  /\ generations = <<>>

NoSelector ==
  /\ instructions = <<>>
  /\ selected_instructions = <<>>
  /\ available_instructions = <<>>
  /\ cursor = 0

NothingElsewhere == NoOrderLoop /\ NoProgramAccounts /\ NoSelector

EmptyGraph == [nodes |-> <<>>, edges |-> <<>>]
Running == [status |-> "running", stage |-> "", raised |-> "", error |-> "", by |-> ""]
NoRun == [status |-> "none"]
NotSorted == Err("")

\* the two analyze_dependencies: the program's (analyzer/mod.rs) and the CLI's
\* (analyzer_onchain/src/lib.rs)
Orchestrators == {"program", "cli"}

Fresh ==
  /\ account_registry = <<>>
  /\ dependency_graph = EmptyGraph
  /\ sorted_instructions = NotSorted
  /\ account_dependencies = <<>>
  /\ pda_init_sequence = <<>>
  /\ setup_requirements = <<>>
  /\ test_cases = <<>>
  /\ outcome = Running

Init ==
  /\ idl \in Idls
  /\ execution_order \in ExecutionOrders
  /\ pc = "registry"
  /\ previous = NoRun
  /\ Fresh
  /\ NothingElsewhere

\* what analyze_dependencies does with the error a stage raised
Surface(orchestrator, stage, error) ==
  IF orchestrator = "program"
    THEN [status |-> "err", stage |-> stage, raised |-> error, error |-> error,
          by |-> orchestrator]
  ELSE IF stage \in {"registry", "graph"}
    THEN [status |-> "err", stage |-> stage, raised |-> error,
          error |-> "DependencyAnalysisFailed", by |-> orchestrator]
  ELSE [status |-> "panic", stage |-> stage, raised |-> error, error |-> "",
        by |-> orchestrator]

Fail(stage, error) ==
  /\ pc' = "failed"
  /\ \E orchestrator \in Orchestrators : outcome' = Surface(orchestrator, stage, error)

TestMetadata ==
  [instruction_order |-> execution_order,
   account_dependencies |-> account_dependencies,
   pda_init_sequence |-> pda_init_sequence,
   setup_requirements |-> setup_requirements,
   test_cases |-> test_cases]

BuildRegistry ==
  /\ pc = "registry"
  /\ account_registry' = BuildAccountRegistry(idl, <<>>)
  /\ pc' = "graph"
  /\ UNCHANGED <<idl, execution_order, dependency_graph, sorted_instructions,
                 account_dependencies, pda_init_sequence, setup_requirements, test_cases,
                 outcome, previous>>
  /\ UNCHANGED elsewhere

BuildGraph ==
  /\ pc = "graph"
  /\ LET r == BuildDependencyGraph(idl, execution_order, account_registry)
     IN IF r.ok
          THEN dependency_graph' = r.value /\ pc' = "order" /\ UNCHANGED outcome
          ELSE Fail("graph", r.error) /\ UNCHANGED dependency_graph
  /\ UNCHANGED <<idl, execution_order, account_registry, sorted_instructions,
                 account_dependencies, pda_init_sequence, setup_requirements, test_cases,
                 previous>>
  /\ UNCHANGED elsewhere

OrderAccounts ==
  /\ pc = "order"
  /\ \E queue \in InitialQueues(dependency_graph) :
       LET r == GenerateAccountDependencies(dependency_graph, account_registry, queue)
       IN /\ sorted_instructions' = GetSortedInstructions(dependency_graph, queue)
          /\ IF r.ok
               THEN account_dependencies' = r.value /\ pc' = "flow" /\ UNCHANGED outcome
               ELSE Fail("order", r.error) /\ UNCHANGED account_dependencies
  /\ UNCHANGED <<idl, execution_order, account_registry, dependency_graph,
                 pda_init_sequence, setup_requirements, test_cases, previous>>
  /\ UNCHANGED elsewhere

ValidateFlow ==
  /\ pc = "flow"
  /\ \E keys \in IterationOrders(DOMAIN FlowGraph(account_dependencies)) :
       LET r == ValidateAccountFlow(account_dependencies, keys)
       IN IF r.ok THEN pc' = "pdas" /\ UNCHANGED outcome
          ELSE Fail("flow", r.error)
  /\ UNCHANGED <<idl, execution_order, account_registry, dependency_graph,
                 sorted_instructions, account_dependencies, pda_init_sequence,
                 setup_requirements, test_cases, previous>>
  /\ UNCHANGED elsewhere

DetectPdaSequence ==
  /\ pc = "pdas"
  /\ pda_init_sequence' = DetectPdas(account_registry, ProgramId).value
  /\ pc' = "setup"
  /\ UNCHANGED <<idl, execution_order, account_registry, dependency_graph,
                 sorted_instructions, account_dependencies, setup_requirements, test_cases,
                 outcome, previous>>
  /\ UNCHANGED elsewhere

GenerateSetup ==
  /\ pc = "setup"
  /\ \E keys \in RequirementKeyOrders(account_dependencies) :
       setup_requirements' = GenerateSetupRequirements(account_dependencies, keys).value
  /\ pc' = "setup_flow"
  /\ UNCHANGED <<idl, execution_order, account_registry, dependency_graph,
                 sorted_instructions, account_dependencies, pda_init_sequence, test_cases,
                 outcome, previous>>
  /\ UNCHANGED elsewhere

ValidateSetup ==
  /\ pc = "setup_flow"
  /\ LET r == ValidateSetupFlow(setup_requirements)
     IN IF r.ok THEN pc' = "tests" /\ UNCHANGED outcome
        ELSE Fail("setup_flow", r.error)
  /\ UNCHANGED <<idl, execution_order, account_registry, dependency_graph,
                 sorted_instructions, account_dependencies, pda_init_sequence,
                 setup_requirements, test_cases, previous>>
  /\ UNCHANGED elsewhere

GenerateTests ==
  /\ pc = "tests"
  /\ LET r == GenerateTestCases(idl, execution_order)
     IN IF r.ok
          THEN /\ test_cases' = r.value
               /\ pc' = "done"
               /\ outcome' = [status |-> "ok", stage |-> "", raised |-> "", error |-> "",
                              by |-> ""]
          ELSE Fail("tests", r.error) /\ UNCHANGED test_cases
  /\ UNCHANGED <<idl, execution_order, account_registry, dependency_graph,
                 sorted_instructions, account_dependencies, pda_init_sequence,
                 setup_requirements, previous>>
  /\ UNCHANGED elsewhere

Next ==
  \/ BuildRegistry
  \/ BuildGraph
  \/ OrderAccounts
  \/ ValidateFlow
  \/ DetectPdaSequence
  \/ GenerateSetup
  \/ ValidateSetup
  \/ GenerateTests

Spec == Init /\ [][Next]_vars

(***************************************************************************)
(* A second analysis of the same input, to compare two runs.               *)
(***************************************************************************)
Rerun ==
  /\ pc = "done"
  /\ previous.status = "none"
  /\ previous' = [status |-> "ok", metadata |-> TestMetadata]
  /\ pc' = "registry"
  /\ account_registry' = <<>>
  /\ dependency_graph' = EmptyGraph
  /\ sorted_instructions' = NotSorted
  /\ account_dependencies' = <<>>
  /\ pda_init_sequence' = <<>>
  /\ setup_requirements' = <<>>
  /\ test_cases' = <<>>
  /\ outcome' = Running
  /\ UNCHANGED <<idl, execution_order>>
  /\ UNCHANGED elsewhere

NextTwice == Next \/ Rerun

SpecTwice == Init /\ [][NextTwice]_vars

(***************************************************************************)
(* TestCaseGenerator::generate_test_cases called on its own.               *)
(***************************************************************************)
FieldTypes == {"u8", "u64", "i32", "bool", "string", "publicKey", "bytes"}
ArgumentNames == <<"amount", "title", "owner">>

ArgumentLists ==
  {[i \in 1..Len(t) |-> [name |-> ArgumentNames[i], field_type |-> t[i]]] :
     t \in SeqsUpTo(FieldTypes, MaxArgs)}

ArgumentIdls ==
  {i \in UNION {[1..k -> {[name |-> n, accounts |-> <<>>, args |-> a] :
                             n \in InstructionNames, a \in ArgumentLists}] :
                k \in 1..MaxInstructions} :
     \A a, b \in 1..Len(i) : i[a].name = i[b].name => a = b}

InitTestCases ==
  /\ idl \in ArgumentIdls
  /\ execution_order \in ExecutionOrders
  /\ pc = "generate_test_cases"
  /\ previous = NoRun
  /\ Fresh
  /\ NothingElsewhere

CallGenerateTestCases ==
  /\ pc = "generate_test_cases"
  /\ LET r == GenerateTestCases(idl, execution_order)
     IN IF r.ok
          THEN /\ test_cases' = r.value
               /\ outcome' = [status |-> "ok", stage |-> "", raised |-> "", error |-> "",
                              by |-> ""]
          ELSE /\ UNCHANGED test_cases
               /\ outcome' = [status |-> "err", stage |-> "tests", raised |-> r.error,
                              error |-> r.error, by |-> ""]
  /\ pc' = "returned"
  /\ UNCHANGED <<idl, execution_order, account_registry, dependency_graph,
                 sorted_instructions, account_dependencies, pda_init_sequence,
                 setup_requirements, previous>>
  /\ UNCHANGED elsewhere

NextTestCases == CallGenerateTestCases

SpecTestCases == InitTestCases /\ [][NextTestCases]_vars

(***************************************************************************)
(* validate_setup_flow called on its own, on requirement lists of every    *)
(* shape: the three kinds of description the generator writes, and one     *)
(* that names no target.                                                   *)
(***************************************************************************)
MaxRequirements == 3
MaxDependencies == 2

RequirementNames == {"user", "vault"}

RequirementDescriptions ==
  {<<"CreateKeypair", KeypairPrefix \o Chars[n]>> : n \in RequirementNames}
    \cup {<<"FundAccount", FundPrefix \o Chars[n] \o FundSuffix>> : n \in RequirementNames}
    \cup {<<"InitializePda", InitializePrefix \o Chars[n] \o PdaSuffix>> : n \in RequirementNames}
    \cup {<<"MintTokens", Chars["update"]>>}

Requirements ==
  {SetupRequirement(d[1], d[2], dependencies) :
     d \in RequirementDescriptions,
     dependencies \in SeqsUpTo(RequirementNames, MaxDependencies)}

InitSetupFlow ==
  /\ idl = <<>>
  /\ execution_order = <<>>
  /\ pc = "validate_setup_flow"
  /\ previous = NoRun
  /\ account_registry = <<>>
  /\ dependency_graph = EmptyGraph
  /\ sorted_instructions = NotSorted
  /\ account_dependencies = <<>>
  /\ pda_init_sequence = <<>>
  /\ setup_requirements \in SeqsUpTo(Requirements, MaxRequirements)
  /\ test_cases = <<>>
  /\ outcome = Running
  /\ NothingElsewhere

CallValidateSetupFlow ==
  /\ pc = "validate_setup_flow"
  /\ LET r == ValidateSetupFlow(setup_requirements)
     IN IF r.ok
          THEN outcome' = [status |-> "ok", stage |-> "", raised |-> "", error |-> "",
                           by |-> ""]
          ELSE outcome' = [status |-> "err", stage |-> "setup_flow", raised |-> r.error,
                           error |-> r.error, by |-> ""]
  /\ pc' = "validated"
  /\ UNCHANGED <<idl, execution_order, account_registry, dependency_graph,
                 sorted_instructions, account_dependencies, pda_init_sequence,
                 setup_requirements, test_cases, previous>>
  /\ UNCHANGED elsewhere

NextSetupFlow == CallValidateSetupFlow

SpecSetupFlow == InitSetupFlow /\ [][NextSetupFlow]_vars

(***************************************************************************)
(* validate_account_flow called on its own, on dependency lists of every   *)
(* shape over a few account names.  The lists carry one entry per account, *)
(* as generate_account_dependencies writes them; depends_on may repeat a   *)
(* name, name the account itself, or name an account the list lacks.       *)
(***************************************************************************)
MaxDependencyEntries == 3
MaxDependsOn == 2

FlowAccountNames == {"user", "vault", "entry"}
FlowExternalNames == {"authority"}

FlowDependencies ==
  {l \in SeqsUpTo([account_name : FlowAccountNames,
                   depends_on : SeqsUpTo(FlowAccountNames \cup FlowExternalNames, MaxDependsOn),
                   is_pda : {FALSE}, is_signer : {FALSE}, is_mut : {FALSE},
                   must_be_initialized : {FALSE}, initialization_order : {0}],
                  MaxDependencyEntries) :
     \A i, j \in 1..Len(l) : l[i].account_name = l[j].account_name => i = j}

InitAccountFlow ==
  /\ idl = <<>>
  /\ execution_order = <<>>
  /\ pc = "validate_account_flow"
  /\ previous = NoRun
  /\ account_registry = <<>>
  /\ dependency_graph = EmptyGraph
  /\ sorted_instructions = NotSorted
  /\ account_dependencies \in FlowDependencies
  /\ pda_init_sequence = <<>>
  /\ setup_requirements = <<>>
  /\ test_cases = <<>>
  /\ outcome = Running
  /\ NothingElsewhere

CallValidateAccountFlow ==
  /\ pc = "validate_account_flow"
  /\ \E keys \in IterationOrders(DOMAIN FlowGraph(account_dependencies)) :
       LET r == ValidateAccountFlow(account_dependencies, keys)
       IN IF r.ok
            THEN outcome' = [status |-> "ok", stage |-> "", raised |-> "", error |-> "",
                             by |-> ""]
            ELSE outcome' = [status |-> "err", stage |-> "flow", raised |-> r.error,
                             error |-> r.error, by |-> ""]
  /\ pc' = "flow_validated"
  /\ UNCHANGED <<idl, execution_order, account_registry, dependency_graph,
                 sorted_instructions, account_dependencies, pda_init_sequence,
                 setup_requirements, test_cases, previous>>
  /\ UNCHANGED elsewhere

NextAccountFlow == CallValidateAccountFlow

SpecAccountFlow == InitAccountFlow /\ [][NextAccountFlow]_vars

(***************************************************************************)
(* generate_account_dependencies run one loop iteration at a time, on a    *)
(* registry large enough for the ordinal to pass the 8-bit maximum: the    *)
(* first accounts are initialized by the one instruction of the graph and  *)
(* the others by none.                                                     *)
(***************************************************************************)
MaxRegistryAccounts == 258

LargeRegistry(n, initialized) ==
  [k \in 1..n |->
     [name |-> ToString(k), is_pda |-> FALSE, is_signer |-> FALSE, is_mut |-> TRUE,
      initialized_by |-> IF k <= initialized THEN "init" ELSE None,
      seeds |-> <<>>, used_in |-> <<"init">>, constraints |-> <<>>]]

LargeGraph(initialized) ==
  [nodes |-> <<[name |-> "init", initializes |-> [k \in 1..initialized |-> ToString(k)],
                requires |-> <<>>]>>,
   edges |-> <<>>]

\* the account names the first loop visits: the initializes of each sorted instruction's node
RECURSIVE InitializedInOrder(_, _)
InitializedInOrder(sorted, graph) ==
  IF sorted = <<>> THEN <<>>
  ELSE LET hits == {i \in 1..Len(graph.nodes) : graph.nodes[i].name = Head(sorted)}
       IN (IF hits = {} THEN <<>>
           ELSE graph.nodes[CHOOSE i \in hits : \A j \in hits : i <= j].initializes)
            \o InitializedInOrder(Tail(sorted), graph)

InitOrdinals ==
  /\ idl = <<>>
  /\ execution_order = <<"init">>
  /\ pc = "generate_account_dependencies"
  /\ previous = NoRun
  /\ \E initialized \in {0, MaxRegistryAccounts \div 2, MaxRegistryAccounts} :
       /\ account_registry = LargeRegistry(MaxRegistryAccounts, initialized)
       /\ dependency_graph = LargeGraph(initialized)
  /\ sorted_instructions = NotSorted
  /\ account_dependencies = <<>>
  /\ pda_init_sequence = <<>>
  /\ setup_requirements = <<>>
  /\ test_cases = <<>>
  /\ outcome = Running
  /\ NoOrderLoop
  /\ NoProgramAccounts
  /\ NoSelector

OrdinalsFrame ==
  UNCHANGED <<idl, execution_order, account_registry, dependency_graph, pda_init_sequence,
              setup_requirements, test_cases, previous, program_accounts, selector>>

\* let mut initialization_order = 0u8; let sorted_instructions = get_sorted_instructions()?
SortInstructions ==
  /\ pc = "generate_account_dependencies"
  /\ \E queue \in InitialQueues(dependency_graph) :
       /\ sorted_instructions' = GetSortedInstructions(dependency_graph, queue)
       /\ IF sorted_instructions'.ok
            THEN pc' = "initialized_accounts" /\ UNCHANGED outcome
            ELSE /\ pc' = "generated"
                 /\ outcome' = [status |-> "err", stage |-> "order",
                                raised |-> sorted_instructions'.error,
                                error |-> sorted_instructions'.error, by |-> ""]
  /\ loop_index' = 1
  /\ initialization_order' = 0
  /\ account_dependencies' = <<>>
  /\ OrdinalsFrame

\* one iteration of the loop over the accounts the sorted instructions initialize
PushInitializedAccount ==
  /\ pc = "initialized_accounts"
  /\ LET names == InitializedInOrder(sorted_instructions.value, dependency_graph)
     IN IF loop_index <= Len(names)
          THEN LET acc == PushInitialized(<<names[loop_index]>>, account_registry,
                            [deps |-> account_dependencies, order |-> initialization_order])
               IN /\ account_dependencies' = acc.deps
                  /\ initialization_order' = acc.order
                  /\ loop_index' = loop_index + 1
                  /\ pc' = pc
          ELSE /\ pc' = "external_accounts"
               /\ loop_index' = 1
               /\ UNCHANGED <<account_dependencies, initialization_order>>
  /\ UNCHANGED <<sorted_instructions, outcome>>
  /\ OrdinalsFrame

\* one iteration of the loop over the registry, then Ok(account_dependencies)
PushExternalAccount ==
  /\ pc = "external_accounts"
  /\ IF loop_index <= Len(account_registry)
       THEN LET acc == PushExternal(SubSeq(account_registry, 1, loop_index), loop_index,
                         [deps |-> account_dependencies, order |-> initialization_order])
            IN /\ account_dependencies' = acc.deps
               /\ initialization_order' = acc.order
               /\ loop_index' = loop_index + 1
               /\ pc' = pc
               /\ UNCHANGED outcome
       ELSE /\ pc' = "generated"
            /\ outcome' = [status |-> "ok", stage |-> "", raised |-> "", error |-> "",
                           by |-> ""]
            /\ UNCHANGED <<account_dependencies, initialization_order, loop_index>>
  /\ UNCHANGED sorted_instructions
  /\ OrdinalsFrame

NextOrdinals == SortInstructions \/ PushInitializedAccount \/ PushExternalAccount

SpecOrdinals == InitOrdinals /\ [][NextOrdinals]_vars

(***************************************************************************)
(* The journal program: create_journal_entry initializes the PDA           *)
(* journal_entry, derived from the literal "entry" and the signer          *)
(* authority; update_journal_entry and delete_journal_entry use it.  The   *)
(* IDL leaves open which instructions mark authority writable and which    *)
(* of the later instructions repeat the PDA descriptor.                    *)
(***************************************************************************)
JournalInstructionNames ==
  <<"create_journal_entry", "update_journal_entry", "delete_journal_entry">>

\* convert_pda_seed: a const seed carries its literal in value and has no path, an
\* account seed carries the account's name in path and an empty value
JournalEntryPda == Pda(<<IdlSeed("const", "", "entry"), IdlSeed("account", "authority", "")>>)

JournalArgs(k) ==
  IF k = 3 THEN <<[name |-> "title", field_type |-> "string"]>>
  ELSE <<[name |-> "title", field_type |-> "string"],
         [name |-> "message", field_type |-> "string"]>>

JournalIdls ==
  {[k \in 1..3 |->
      [name |-> JournalInstructionNames[k],
       accounts |-> <<IdlAccountItem("journal_entry", TRUE, FALSE, <<>>,
                                     IF k = 1 \/ repeats[k] THEN JournalEntryPda ELSE NoPda),
                      IdlAccountItem("authority", writable[k], TRUE, <<>>, NoPda)>>,
       args |-> JournalArgs(k)]] :
     writable \in [1..3 -> BOOLEAN], repeats \in [1..3 -> BOOLEAN]}

JournalOrders == UNION {[1..k -> {JournalInstructionNames[i] : i \in 1..3}] : k \in 1..3}

InitJournal ==
  /\ idl \in JournalIdls
  /\ execution_order \in JournalOrders
  /\ pc = "registry"
  /\ previous = NoRun
  /\ Fresh
  /\ NothingElsewhere

SpecJournal == InitJournal /\ [][Next]_vars

(***************************************************************************)
(* The user's account (state/user_config.rs).  Timestamps, the bump and    *)
(* the IDL hash are left out: nothing reads them back.                     *)
(***************************************************************************)
\* UserConfig::initialize
InitializeUserConfig(authority) ==
  [initialized |-> TRUE, authority |-> authority, total_tests_generated |-> 0,
   programs_tested |-> <<>>]

\* the first entry of programs_tested for that program, 0 if none
FindProgramHistory(programs_tested, program_id) ==
  LET hits == {i \in 1..Len(programs_tested) : programs_tested[i].program_id = program_id}
  IN IF hits = {} THEN 0 ELSE CHOOSE i \in hits : \A j \in hits : i <= j

\* a variant that pushes a new entry on every call
UpdateAfterGenerationAlwaysPushing(config, program_id, program_name) ==
  [config EXCEPT
     !.total_tests_generated = @ + 1,
     !.programs_tested = Append(@, [program_id |-> program_id, program_name |-> program_name,
                                    test_count |-> 1])]

\* UserConfig::update_after_generation
UpdateAfterGeneration(config, program_id, program_name) ==
  LET found == FindProgramHistory(config.programs_tested, program_id)
  IN [config EXCEPT
        !.total_tests_generated = @ + 1,
        !.programs_tested =
           IF found # 0
             THEN [@ EXCEPT ![found].test_count = @ + 1]
             ELSE Append(@, [program_id |-> program_id, program_name |-> program_name,
                             test_count |-> 1])]

(***************************************************************************)
(* initialize_user followed by calls of update_after_generation, for a few *)
(* programs and a bounded number of calls.                                 *)
(***************************************************************************)
MaxGenerations == 6

Signer == "alice"
TestedPrograms == {"program", "journal", "vault_program"}

InitUserConfig ==
  /\ idl = <<>>
  /\ execution_order = <<>>
  /\ pc = "initialize_user"
  /\ previous = NoRun
  /\ Fresh
  /\ NoOrderLoop
  /\ NoProgramAccounts
  /\ NoSelector

UserConfigFrame ==
  UNCHANGED <<idl, execution_order, account_registry, dependency_graph, sorted_instructions,
              account_dependencies, pda_init_sequence, setup_requirements, test_cases,
              outcome, previous, order_loop, idl_storage, test_metadata_config, selector>>

InitializeUser ==
  /\ pc = "initialize_user"
  /\ user_config' = InitializeUserConfig(Signer)
  /\ generations' = <<>>
  /\ pc' = "user_ready"
  /\ UserConfigFrame

CallUpdateAfterGeneration ==
  /\ pc = "user_ready"
  /\ Len(generations) < MaxGenerations
  /\ \E program_id \in TestedPrograms :
       /\ user_config' = UpdateAfterGeneration(user_config, program_id, program_id)
       /\ generations' = Append(generations, program_id)
  /\ pc' = pc
  /\ UserConfigFrame

NextUserConfig == InitializeUser \/ CallUpdateAfterGeneration

SpecUserConfig == InitUserConfig /\ [][NextUserConfig]_vars

(***************************************************************************)
(* generate_metadata (instructions/generate_metadata.rs).  The data of the *)
(* idl_storage account is the sequence of the fields found in its bytes:   *)
(* <<discriminator, authority, program_id, idl_data>> or a prefix of it,   *)
(* the empty sequence being an account with fewer than 8 bytes.  The       *)
(* account is an UncheckedAccount, so any account can be passed.  The      *)
(* account constraints Anchor checks before the handler are taken as met,  *)
(* and a failed instruction leaves every account as it was.                *)
(***************************************************************************)
IdlStorageDiscriminator == "IdlStorage"
AccountDiscriminators == {IdlStorageDiscriminator, "UserConfig"}
Keys == {Signer, "mallory"}
ProgramIds == {ProgramId, "other_program"}
ProgramNameArgument == "journal"

IdlStorageData ==
  {<<>>}
    \cup {<<d>> : d \in AccountDiscriminators}
    \cup {<<d, a>> : d \in AccountDiscriminators, a \in Keys}
    \cup {<<d, a, p>> : d \in AccountDiscriminators, a \in Keys, p \in ProgramIds}
    \cup {<<d, a, p, i>> : d \in AccountDiscriminators, a \in Keys, p \in ProgramIds,
                           i \in JournalIdls}

InitProgram ==
  /\ idl = <<>>
  /\ execution_order \in JournalOrders
  /\ pc = "generate_metadata"
  /\ previous = NoRun
  /\ Fresh
  /\ NoOrderLoop
  /\ NoSelector
  /\ idl_storage \in {[initialized |-> TRUE, data |-> data] : data \in IdlStorageData}
  /\ user_config = InitializeUserConfig(Signer)
  /\ test_metadata_config = NoAccount
  /\ generations = <<>>

Raise(status, error) ==
  [status |-> status, stage |-> "idl_storage", raised |-> error, error |-> error,
   by |-> "program"]

\* the outcome of lines 43-65: Ok(idl_data), an error, or a panic
ReadIdlStorage(data, authority, program_id) ==
  IF Len(data) < 1 THEN [ok |-> FALSE, status |-> "panic", error |-> ""]
  ELSE IF data[1] # IdlStorageDiscriminator
    THEN [ok |-> FALSE, status |-> "err", error |-> "InvalidAccountData"]
  ELSE IF Len(data) < 3 THEN [ok |-> FALSE, status |-> "err", error |-> "BorshIoError"]
  ELSE IF data[2] # authority THEN [ok |-> FALSE, status |-> "err", error |-> "Unauthorized"]
  ELSE IF data[3] # program_id
    THEN [ok |-> FALSE, status |-> "err", error |-> "InvalidProgramId"]
  ELSE IF Len(data) < 4 THEN [ok |-> FALSE, status |-> "err", error |-> "BorshIoError"]
  ELSE [ok |-> TRUE, value |-> data[4]]

CheckIdlStorage ==
  /\ pc = "generate_metadata"
  /\ LET r == ReadIdlStorage(idl_storage.data, Signer, ProgramId)
     IN IF r.ok
          THEN idl' = r.value /\ pc' = "registry" /\ UNCHANGED outcome
          ELSE pc' = "failed" /\ outcome' = Raise(r.status, r.error) /\ UNCHANGED idl
  /\ UNCHANGED <<execution_order, account_registry, dependency_graph, sorted_instructions,
                 account_dependencies, pda_init_sequence, setup_requirements, test_cases,
                 previous>>
  /\ UNCHANGED elsewhere

\* analyzer.analyze_dependencies(...)? as the program's analyzer runs it
AnalyzeDependencies ==
  /\ Next
  /\ pc' = "failed" => outcome'.by = "program"

\* TestMetadataConfig::initialize
InitializeTestMetadataConfig(authority, program_id, program_name, test_metadata) ==
  [initialized |-> TRUE, authority |-> authority, program_id |-> program_id,
   program_name |-> program_name, test_metadata |-> test_metadata]

StoreMetadata ==
  /\ pc = "done"
  /\ user_config' = UpdateAfterGeneration(user_config, ProgramId, ProgramNameArgument)
  /\ test_metadata_config' =
       InitializeTestMetadataConfig(Signer, ProgramId, ProgramNameArgument, TestMetadata)
  /\ generations' = Append(generations, ProgramId)
  /\ pc' = "stored"
  /\ UNCHANGED <<idl, execution_order, account_registry, dependency_graph, sorted_instructions,
                 account_dependencies, pda_init_sequence, setup_requirements, test_cases,
                 outcome, previous, order_loop, idl_storage, selector>>

NextProgram == CheckIdlStorage \/ AnalyzeDependencies \/ StoreMetadata

SpecProgram == InitProgram /\ [][NextProgram]_vars

(***************************************************************************)
(* select_instruction_order_interactive (cli/src/commands/gen_test.rs):    *)
(* one action per event of the loop.  The cursor is 0-based as in the      *)
(* code; the sequences are 1-based.                                        *)
(***************************************************************************)
MaxSelectable == 4

SelectableNames == {"initialize", "deposit", "close"}

\* Vec::remove(index), 0-based
RemoveAt(seq, index) == SubSeq(seq, 1, index) \o SubSeq(seq, index + 2, Len(seq))

\* usize::saturating_sub
SaturatingSub(a, b) == IF a >= b THEN a - b ELSE 0

\* a variant of the Enter arm that leaves the cursor where it was
CursorAfterEnterUnadjusted(position, remaining) == position

\* the cursor after the Enter arm removed the entry under it
CursorAfterEnter(position, remaining) ==
  IF position >= Len(remaining) /\ position > 0 THEN position - 1 ELSE position

InitSelector ==
  /\ idl = <<>>
  /\ execution_order = <<>>
  /\ pc = "selecting"
  /\ previous = NoRun
  /\ Fresh
  /\ NoOrderLoop
  /\ NoProgramAccounts
  /\ instructions \in SeqsUpTo(SelectableNames, MaxSelectable)
  /\ selected_instructions = <<>>
  /\ available_instructions = instructions
  /\ cursor = 0

SelectorFrame ==
  UNCHANGED <<idl, execution_order, account_registry, dependency_graph, sorted_instructions,
              account_dependencies, pda_init_sequence, setup_requirements, test_cases,
              previous, order_loop, program_accounts, instructions>>

EventUp ==
  /\ pc = "selecting"
  /\ cursor' = IF cursor > 0 THEN cursor - 1 ELSE cursor
  /\ UNCHANGED <<pc, outcome, selected_instructions, available_instructions>>
  /\ SelectorFrame

EventDown ==
  /\ pc = "selecting"
  /\ cursor' = IF cursor < SaturatingSub(Len(available_instructions), 1)
                 THEN cursor + 1 ELSE cursor
  /\ UNCHANGED <<pc, outcome, selected_instructions, available_instructions>>
  /\ SelectorFrame

EventEnter ==
  /\ pc = "selecting"
  /\ IF available_instructions # <<>> /\ cursor < Len(available_instructions)
       THEN /\ available_instructions' = RemoveAt(available_instructions, cursor)
            /\ selected_instructions' =
                 Append(selected_instructions, available_instructions[cursor + 1])
            /\ cursor' = CursorAfterEnter(cursor, available_instructions')
       ELSE UNCHANGED <<available_instructions, selected_instructions, cursor>>
  /\ UNCHANGED <<pc, outcome>>
  /\ SelectorFrame

EventDone ==
  /\ pc = "selecting"
  /\ IF selected_instructions # <<>>
       THEN /\ pc' = "returned"
            /\ outcome' = [Running EXCEPT !.status = "ok"]
       ELSE UNCHANGED <<pc, outcome>>
  /\ UNCHANGED <<selected_instructions, available_instructions, cursor>>
  /\ SelectorFrame

EventQuit ==
  /\ pc = "selecting"
  /\ pc' = "returned"
  /\ outcome' = [Running EXCEPT !.status = "err", !.error = "User cancelled"]
  /\ UNCHANGED <<selected_instructions, available_instructions, cursor>>
  /\ SelectorFrame

\* terminal.draw, event_handler.next or the final restore_terminal fails
TerminalError ==
  /\ pc = "selecting"
  /\ pc' = "returned"
  /\ outcome' = [Running EXCEPT !.status = "err", !.error = "io"]
  /\ UNCHANGED <<selected_instructions, available_instructions, cursor>>
  /\ SelectorFrame

NextSelector == EventUp \/ EventDown \/ EventEnter \/ EventDone \/ EventQuit \/ TerminalError

SpecSelector == InitSelector /\ [][NextSelector]_vars

(***************************************************************************)
(* Vocabulary of the properties.                                           *)
(***************************************************************************)
StageNo ==
  [registry |-> 1, graph |-> 2, order |-> 3, flow |-> 4, pdas |-> 5, setup |-> 6,
   setup_flow |-> 7, tests |-> 8, done |-> 9]

\* the stage has been run, whether it succeeded or failed
Reached(stage) ==
  IF pc = "failed" THEN StageNo[outcome.stage] >= StageNo[stage]
  ELSE pc \in DOMAIN StageNo /\ StageNo[pc] > StageNo[stage]

\* the stage has been run and returned Ok
Passed(stage) ==
  IF pc = "failed" THEN StageNo[outcome.stage] > StageNo[stage]
  ELSE pc \in DOMAIN StageNo /\ StageNo[pc] > StageNo[stage]

RECURSIVE TransitiveClosure(_)
TransitiveClosure(R) ==
  LET step == R \cup UNION {{<<p[1], q[2]>> : q \in {r \in R : r[1] = p[2]}} : p \in R}
  IN IF step = R THEN R ELSE TransitiveClosure(step)

Acyclic(R) == \A p \in TransitiveClosure(R) : p[1] # p[2]

EdgePairs(graph) == {<<graph.edges[k].from, graph.edges[k].to>> : k \in 1..Len(graph.edges)}

Occurrences(seq, x) == Cardinality({i \in 1..Len(seq) : seq[i] = x})

PositionIn(seq, x) == CHOOSE i \in 1..Len(seq) : seq[i] = x

\* the account names the IDL's instructions list
IdlAccountNames ==
  UNION {{idl[i].accounts[k].name : k \in 1..Len(idl[i].accounts)} : i \in 1..Len(idl)}

\* the order returned is a topological order of the graph's nodes
SortedIsTopologicalOrder ==
  /\ sorted_instructions.ok
  /\ Len(sorted_instructions.value) = Len(dependency_graph.nodes)
  /\ \A i \in 1..Len(dependency_graph.nodes) :
       Occurrences(sorted_instructions.value, dependency_graph.nodes[i].name) = 1
  /\ \A k \in 1..Len(dependency_graph.edges) :
       PositionIn(sorted_instructions.value, dependency_graph.edges[k].from)
         < PositionIn(sorted_instructions.value, dependency_graph.edges[k].to)

(***************************************************************************)
(* C1.  For every dependency graph whose edges contain no cycle, the       *)
(* instruction order the Account Orderer computes (get_sorted_instructions)*)
(* contains every graph node exactly once, and for every edge from -> to   *)
(* the node from appears before the node to.                               *)
(***************************************************************************)
C1_SortedOrderOfAcyclicGraph ==
  (Reached("order") /\ Acyclic(EdgePairs(dependency_graph))) => SortedIsTopologicalOrder

(***************************************************************************)
(* C2.  Whenever the pipeline succeeds, account_dependencies holds exactly *)
(* one entry per distinct account name of the IDL's account lists: no name *)
(* is duplicated and none is omitted.                                      *)
(***************************************************************************)
C2_OneEntryPerAccountName ==
  pc = "done" =>
    /\ \A n \in IdlAccountNames :
         Cardinality({i \in 1..Len(account_dependencies) :
                        account_dependencies[i].account_name = n}) = 1
    /\ \A i \in 1..Len(account_dependencies) :
         account_dependencies[i].account_name \in IdlAccountNames

\* the fixture: a initialized by I1 without seeds, b a PDA initialized by I2 and seeded by a
SeededFixture(a, b) ==
  /\ Len(execution_order) = 2
  /\ execution_order[1] # execution_order[2]
  /\ a # b
  /\ a.initialized_by = execution_order[1]
  /\ a.seeds = <<>>
  /\ b.is_pda
  /\ b.initialized_by = execution_order[2]
  /\ Len(b.seeds) = 1
  /\ b.seeds[1].seed_type = "AccountKey"
  /\ b.seeds[1].value = a.name

EntriesOf(name) ==
  {i \in 1..Len(account_dependencies) : account_dependencies[i].account_name = name}

(***************************************************************************)
(* C3.  If account A is initialized by I1 and has no seeds, account B is a *)
(* PDA initialized by I2 whose only seed is an AccountKey seed referencing *)
(* A, and execution_order = [I1, I2], then the account dependencies give B *)
(* depends_on = [A] and initialization_order(A) < initialization_order(B). *)
(***************************************************************************)
C3_SeededAccountComesAfterItsSeed ==
  Passed("order") =>
    \A x, y \in 1..Len(account_registry) :
      SeededFixture(account_registry[x], account_registry[y]) =>
        /\ EntriesOf(account_registry[x].name) # {}
        /\ EntriesOf(account_registry[y].name) # {}
        /\ \A i \in EntriesOf(account_registry[x].name),
              j \in EntriesOf(account_registry[y].name) :
             /\ account_dependencies[j].depends_on = <<account_registry[x].name>>
             /\ account_dependencies[i].initialization_order
                  < account_dependencies[j].initialization_order

(***************************************************************************)
(* C4.  Running the whole pipeline twice on the same (idl, execution_order,*)
(* program_id) yields identical TestMetadata: nothing in it depends on     *)
(* hash-map iteration order or any other nondeterministic choice.          *)
(***************************************************************************)
C4_SecondRunYieldsSameMetadata ==
  (pc = "done" /\ previous.status = "ok") => TestMetadata = previous.metadata

\* the fixture: x initialized by I1 has an AccountKey seed naming y, which only I2
\* initializes, and I2 in turn uses x
ReversedFixture(x, y) ==
  /\ Len(execution_order) = 2
  /\ execution_order[1] # execution_order[2]
  /\ x # y
  /\ x.initialized_by = execution_order[1]
  /\ y.initialized_by = execution_order[2]
  /\ \E k \in 1..Len(x.seeds) : x.seeds[k].seed_type = "AccountKey" /\ x.seeds[k].value = y.name
  /\ \E u \in 1..Len(x.used_in) : x.used_in[u] = execution_order[2]
  /\ \A u \in 1..Len(y.used_in) : y.used_in[u] = execution_order[2]

(***************************************************************************)
(* C5.  For a two-instruction fixture with execution_order = [I1, I2] in   *)
(* which an account initialized by I1 has a seed referencing an account    *)
(* that only I2 initializes, so that the seed and initialization           *)
(* dependencies form a loop, graph cycle detection or validate_account_flow*)
(* fails with CircularDependency.                                          *)
(***************************************************************************)
C5_ReversedOrderRaisesCircularDependency ==
  ((Reached("flow") \/ pc = "failed")
     /\ \E x, y \in 1..Len(account_registry) :
          ReversedFixture(account_registry[x], account_registry[y]))
    => /\ pc = "failed"
       /\ outcome.stage \in {"graph", "flow"}
       /\ outcome.raised = "CircularDependency"

IsCreateKeypairFor(requirement, name) ==
  /\ requirement.requirement_type = "CreateKeypair"
  /\ requirement.description = KeypairPrefix \o Chars[name]

IsFundAccountFor(requirement, name) ==
  /\ requirement.requirement_type = "FundAccount"
  /\ requirement.description = FundPrefix \o Chars[name] \o FundSuffix

IsInitializePdaOn(requirement, name) ==
  /\ requirement.requirement_type = "InitializePda"
  /\ \E k \in 1..Len(requirement.dependencies) : requirement.dependencies[k] = name

(***************************************************************************)
(* C6.  In every list generate_setup_requirements returns, the             *)
(* CreateKeypair requirement of a signer comes before the FundAccount      *)
(* requirement of the same account and before every InitializePda          *)
(* requirement whose dependency list includes that account.                *)
(***************************************************************************)
C6_CreateKeypairComesFirst ==
  Reached("setup") =>
    \A name \in IdlAccountNames :
      \A i, j \in 1..Len(setup_requirements) :
        (/\ IsCreateKeypairFor(setup_requirements[i], name)
         /\ \/ IsFundAccountFor(setup_requirements[j], name)
            \/ IsInitializePdaOn(setup_requirements[j], name))
          => i < j

C6_Witness ==
  /\ Reached("setup")
  /\ \E i, j, k \in 1..Len(setup_requirements) :
       /\ IsCreateKeypairFor(setup_requirements[i], "authority")
       /\ IsFundAccountFor(setup_requirements[j], "authority")
       /\ IsInitializePdaOn(setup_requirements[k], "authority")
       /\ i < j /\ j < k

\* the PDA accounts of the registry
PdaAccounts == {i \in 1..Len(account_registry) : account_registry[i].is_pda}

\* p references q: an AccountKey seed of the PDA p names the PDA q
PdaSeedNames(p, q) ==
  \E k \in 1..Len(account_registry[p].seeds) :
    /\ account_registry[p].seeds[k].seed_type = "AccountKey"
    /\ account_registry[p].seeds[k].value = account_registry[q].name

PdaReferences ==
  {<<account_registry[pq[1]].name, account_registry[pq[2]].name>> :
     pq \in {r \in PdaAccounts \X PdaAccounts : PdaSeedNames(r[1], r[2])}}

(***************************************************************************)
(* C7.  In the list detect_pdas returns, a PDA never appears before        *)
(* another PDA whose account name one of its AccountKey seeds references   *)
(* (for registries whose PDA seed references contain no cycle).            *)
(***************************************************************************)
C7_PdaComesAfterThePdasItsSeedsName ==
  (Reached("pdas") /\ Acyclic(PdaReferences)) =>
    \A i, j \in 1..Len(pda_init_sequence) :
      (\E k \in 1..Len(pda_init_sequence[i].seeds) :
         /\ pda_init_sequence[i].seeds[k].seed_type = "AccountKey"
         /\ pda_init_sequence[i].seeds[k].value = pda_init_sequence[j].account_name)
        => j < i

(***************************************************************************)
(* C8.  When a pipeline stage fails, analyze_dependencies returns to its   *)
(* caller the error of the first failing stage with its kind unchanged,    *)
(* and it returns a TestMetadata only if every stage succeeded.            *)
(***************************************************************************)
C8_FirstFailureSurfacesUnchanged ==
  /\ pc = "failed" => (outcome.status = "err" /\ outcome.error = outcome.raised)
  /\ outcome.status = "ok" => pc = "done"

IdlInstructionNames == {idl[i].name : i \in 1..Len(idl)}

(***************************************************************************)
(* C9.  build_dependency_graph fails with InvalidInstructionOrder,         *)
(* returning no graph, if and only if some name in execution_order is not  *)
(* the name of an instruction of the IDL.                                  *)
(***************************************************************************)
C9_InvalidInstructionOrderIffNameMissing ==
  Reached("graph") =>
    ((/\ pc = "failed"
      /\ outcome.stage = "graph"
      /\ outcome.raised = "InvalidInstructionOrder"
      /\ dependency_graph = EmptyGraph)
     <=> \E k \in 1..Len(execution_order) : execution_order[k] \notin IdlInstructionNames)

C9_Witness ==
  /\ pc = "failed"
  /\ outcome.stage = "graph"
  /\ outcome.raised = "InvalidInstructionOrder"
  /\ Len(execution_order) = 2
  /\ execution_order[1] \in IdlInstructionNames
  /\ execution_order[2] \notin IdlInstructionNames

(***************************************************************************)
(* C10.  generate_test_cases returns exactly one InstructionTestCases      *)
(* entry per entry of execution_order, in the same order and carrying that *)
(* entry's instruction name; it fails with InvalidInstructionOrder,        *)
(* returning no entries at all, if a name of execution_order is not an     *)
(* instruction of the IDL.                                                 *)
(***************************************************************************)
C10_OneEntryPerOrderEntryOrInvalidOrder ==
  pc = "returned" =>
    IF \A k \in 1..Len(execution_order) : execution_order[k] \in IdlInstructionNames
      THEN /\ outcome.status = "ok"
           /\ Len(test_cases) = Len(execution_order)
           /\ \A k \in 1..Len(execution_order) :
                test_cases[k].instruction_name = execution_order[k]
      ELSE /\ outcome.status = "err"
           /\ outcome.raised = "InvalidInstructionOrder"
           /\ test_cases = <<>>

C10_Witness ==
  /\ pc = "returned"
  /\ outcome.status = "ok"
  /\ Len(test_cases) = 2
  /\ test_cases[1].instruction_name # test_cases[2].instruction_name
  /\ Len(test_cases[2].arguments) = MaxArgs

\* the negative case of the entry for one argument alone with that value and error code
HasNegativeCase(entry, argument_name, value, error_code) ==
  \E c \in 1..Len(entry.negative_cases) :
    /\ Len(entry.negative_cases[c].argument_values) = 1
    /\ entry.negative_cases[c].argument_values[1].argument_name = argument_name
    /\ ~entry.negative_cases[c].argument_values[1].valid
    /\ entry.negative_cases[c].argument_values[1].description = value
    /\ ~entry.negative_cases[c].expected_outcome.success
    /\ entry.negative_cases[c].expected_outcome.error_code = error_code

\* the arguments the IDL declares for the instruction of the k-th entry
DeclaredArgs(k) == idl[IndexOfInstruction(idl, execution_order[k])].args

(***************************************************************************)
(* C11.  For an instruction argument of type u64 (constraints Min{0} and   *)
(* NonZero are inferred for it), the instruction's negative_cases contain  *)
(* a case whose value is 0 and whose expected outcome is Failure with      *)
(* error_code "ZeroAmount", and an overflow case whose value is the        *)
(* maximum-sentinel literal u64::MAX.                                      *)
(***************************************************************************)
C11_U64NegativeCases ==
  (pc = "returned" /\ outcome.status = "ok") =>
    \A k \in 1..Len(test_cases) :
      \A a \in 1..Len(DeclaredArgs(k)) :
        DeclaredArgs(k)[a].field_type = "u64" =>
          /\ test_cases[k].arguments[a].constraints
               = <<Constraint("Min", 0), Constraint("NonZero", 0)>>
          /\ HasNegativeCase(test_cases[k], DeclaredArgs(k)[a].name, "0", "ZeroAmount")
          /\ \E c \in 1..Len(test_cases[k].negative_cases) :
               /\ test_cases[k].negative_cases[c].test_type = "NegativeOverflow"
               /\ test_cases[k].negative_cases[c].argument_values
                    = <<Invalid(DeclaredArgs(k)[a].name, "u64::MAX",
                                <<"Potential arithmetic overflow">>)>>

C11_Witness ==
  /\ pc = "returned"
  /\ outcome.status = "ok"
  /\ \E k \in 1..Len(test_cases) :
       /\ Len(DeclaredArgs(k)) = 2
       /\ DeclaredArgs(k)[2].field_type = "u64"
       /\ DeclaredArgs(k)[1].field_type = "string"
       /\ HasNegativeCase(test_cases[k], DeclaredArgs(k)[2].name, "0", "ZeroAmount")

(***************************************************************************)
(* C12.  For the journal scenario, pda_init_sequence is exactly one entry  *)
(* for journal_entry whose seeds are [Static("entry"),                     *)
(* AccountKey("authority")]: a Static seed component carries the seed's    *)
(* literal and an AccountKey component carries the referenced account name.*)
(***************************************************************************)
C12_JournalPdaSequence ==
  Reached("pdas") =>
    /\ Len(pda_init_sequence) = 1
    /\ pda_init_sequence[1].account_name = "journal_entry"
    /\ pda_init_sequence[1].seeds
         = <<[seed_type |-> "Static", value |-> "entry"],
             [seed_type |-> "AccountKey", value |-> "authority"]>>

(***************************************************************************)
(* C13.  For the journal scenario with execution_order =                   *)
(* [create_journal_entry, update_journal_entry, delete_journal_entry],     *)
(* account_dependencies contains an entry for authority with is_signer and *)
(* must_be_initialized = false, and an entry for journal_entry with        *)
(* is_pda, depends_on = ["authority"] and must_be_initialized = true.      *)
(***************************************************************************)
C13_JournalAccountDependencies ==
  (Passed("order") /\ execution_order = JournalInstructionNames) =>
    /\ \E i \in 1..Len(account_dependencies) :
         /\ account_dependencies[i].account_name = "authority"
         /\ account_dependencies[i].is_signer
         /\ ~account_dependencies[i].must_be_initialized
    /\ \E i \in 1..Len(account_dependencies) :
         /\ account_dependencies[i].account_name = "journal_entry"
         /\ account_dependencies[i].is_pda
         /\ account_dependencies[i].depends_on = <<"authority">>
         /\ account_dependencies[i].must_be_initialized

\* the entries generate_setup_requirements treats as signers and as PDAs to initialize
SignerEntries ==
  {i \in 1..Len(account_dependencies) :
     account_dependencies[i].is_signer /\ ~account_dependencies[i].is_pda}

PdaEntries ==
  {i \in 1..Len(account_dependencies) :
     account_dependencies[i].is_pda /\ account_dependencies[i].must_be_initialized}

TrackedNames == {account_dependencies[i].account_name : i \in 1..Len(account_dependencies)}

IsTracked(name) == name \in TrackedNames

\* how many times the requirement is due
ExpectedCount(requirement) ==
  Cardinality({i \in SignerEntries :
                 requirement = SetupRequirement("CreateKeypair",
                   KeypairPrefix \o Chars[account_dependencies[i].account_name], <<>>)})
  + Cardinality({i \in SignerEntries :
                   requirement = SetupRequirement("FundAccount",
                     FundPrefix \o Chars[account_dependencies[i].account_name] \o FundSuffix,
                     <<account_dependencies[i].account_name>>)})
  + Cardinality({i \in PdaEntries :
                   requirement = SetupRequirement("InitializePda",
                     InitializePrefix \o Chars[account_dependencies[i].account_name] \o PdaSuffix,
                     SelectSeq(account_dependencies[i].depends_on, IsTracked))})

(***************************************************************************)
(* C14.  generate_setup_requirements returns exactly these requirements,   *)
(* each once and nothing else: one CreateKeypair per account dependency    *)
(* that is a signer and not a PDA, one FundAccount per such signer whose   *)
(* only dependency is that account's name, and one InitializePda per PDA   *)
(* with must_be_initialized whose dependencies are exactly the members of  *)
(* its depends_on that name tracked account dependencies; the sorting step *)
(* neither drops nor duplicates a requirement.                             *)
(***************************************************************************)
C14_ExactlyTheDueRequirements ==
  Reached("setup") =>
    /\ Len(setup_requirements) = 2 * Cardinality(SignerEntries) + Cardinality(PdaEntries)
    /\ \A k \in 1..Len(setup_requirements) :
         Occurrences(setup_requirements, setup_requirements[k])
           = ExpectedCount(setup_requirements[k])

C14_Witness ==
  /\ Reached("setup")
  /\ SignerEntries # {}
  /\ \E i \in PdaEntries :
       /\ account_dependencies[i].depends_on # <<>>
       /\ \E k \in 1..Len(setup_requirements) :
            setup_requirements[k]
              = SetupRequirement("InitializePda",
                  InitializePrefix \o Chars[account_dependencies[i].account_name] \o PdaSuffix,
                  <<>>)

\* the instruction name contains init, create or initialize, case-insensitively
HasInitKeyword(instruction_name) ==
  \E kw \in {KwInit, KwCreate, KwInitialize} :
    Contains(ToLowercase(Chars[instruction_name]), kw)

\* the account items of that name in the instruction of that name
ItemsOf(instruction_name, account_name) ==
  UNION {{idl[i].accounts[k] :
            k \in {l \in 1..Len(idl[i].accounts) : idl[i].accounts[l].name = account_name}} :
         i \in {j \in 1..Len(idl) : idl[j].name = instruction_name}}

(***************************************************************************)
(* C15.  The registry builder sets an account's initializer to an          *)
(* instruction's name by name inference only when the instruction name     *)
(* contains "init", "create" or "initialize" (case-insensitively) and that *)
(* account item is mutable; a non-mutable account listed in such an        *)
(* instruction gets no inferred initializer (an initializer then comes     *)
(* from an "init" doc line only).                                          *)
(***************************************************************************)
C15_InferredInitializerNeedsMutable ==
  pc # "registry" =>
    \A r \in 1..Len(account_registry) :
      account_registry[r].initialized_by # None =>
        \E item \in ItemsOf(account_registry[r].initialized_by, account_registry[r].name) :
          \/ HasInitKeyword(account_registry[r].initialized_by) /\ item.is_mut
          \/ \E d \in 1..Len(item.docs) : Contains(Chars[item.docs[d]], KwInit)

\* the instructions of the IDL, by index, that assign an initializer to the account
AssigningInstructions(account_name) ==
  {i \in 1..Len(idl) :
     \E k \in 1..Len(idl[i].accounts) :
       /\ idl[i].accounts[k].name = account_name
       /\ ParseAccountInfo(idl[i].accounts[k], idl[i]).initialized_by # None}

(***************************************************************************)
(* C16.  When the same account name is observed in several instructions,   *)
(* the registry keeps a single record whose initializer is the first one   *)
(* assigned: a later instruction that would also infer an initializer for  *)
(* that account does not replace it.                                       *)
(***************************************************************************)
C16_FirstAssignedInitializerIsKept ==
  pc # "registry" =>
    /\ \A r, q \in 1..Len(account_registry) :
         account_registry[r].name = account_registry[q].name => r = q
    /\ \A r \in 1..Len(account_registry) :
         LET assigning == AssigningInstructions(account_registry[r].name)
         IN account_registry[r].initialized_by
              = IF assigning = {} THEN None
                ELSE idl[CHOOSE i \in assigning : \A j \in assigning : i <= j].name

\* the targets parsed from the descriptions of the requirements before position i
TargetsBefore(requirements, i) ==
  {ExtractTargetFromDescription(requirements[j].description).target :
     j \in {l \in 1..(i - 1) :
              ExtractTargetFromDescription(requirements[l].description).some}}

EveryDependencySatisfiedEarlier(requirements) ==
  \A i \in 1..Len(requirements) :
    \A k \in 1..Len(requirements[i].dependencies) :
      Chars[requirements[i].dependencies[k]] \in TargetsBefore(requirements, i)

(***************************************************************************)
(* C17.  The requirement list returned by generate_setup_requirements      *)
(* passes validate_setup_flow: every dependency of every requirement is    *)
(* the extracted target of a strictly earlier requirement, so the          *)
(* setup-validation step never fails on the generator's own output.        *)
(***************************************************************************)
C17_GeneratedSetupPassesValidation ==
  Passed("setup") =>
    /\ EveryDependencySatisfiedEarlier(setup_requirements)
    /\ ValidateSetupFlow(setup_requirements).ok
    /\ ~(pc = "failed" /\ outcome.stage = "setup_flow")

NoRepeatedNames(order) == \A i, j \in 1..Len(order) : order[i] = order[j] => i = j

RaisedCircularDependencyAt(stage) ==
  pc = "failed" /\ outcome.stage = stage /\ outcome.raised = "CircularDependency"

(***************************************************************************)
(* C18.  In every graph build_dependency_graph builds from an execution    *)
(* order without repeated instruction names, every edge goes from a node   *)
(* at a lower execution-order index to a node at a strictly higher index;  *)
(* the graph is acyclic and neither the builder's cycle detection nor the  *)
(* orderer's Kahn sort returns CircularDependency.                         *)
(***************************************************************************)
C18_EdgesGoForwardInExecutionOrder ==
  (Reached("graph") /\ NoRepeatedNames(execution_order)) =>
    /\ ~RaisedCircularDependencyAt("graph")
    /\ ~RaisedCircularDependencyAt("order")
    /\ Passed("graph") =>
         /\ \A k \in 1..Len(dependency_graph.edges) :
              PositionIn(execution_order, dependency_graph.edges[k].from)
                < PositionIn(execution_order, dependency_graph.edges[k].to)
         /\ Acyclic(EdgePairs(dependency_graph))
         /\ ~DetectCircularDependencies(dependency_graph)
    /\ Passed("order") => sorted_instructions.ok

C18_Witness ==
  /\ Passed("order")
  /\ NoRepeatedNames(execution_order)
  /\ Len(execution_order) = MaxOrderLen
  /\ \E k \in 1..Len(dependency_graph.edges) :
       dependency_graph.edges[k].dependency_type = "Initialization"
  /\ \E k \in 1..Len(dependency_graph.edges) :
       dependency_graph.edges[k].dependency_type = "SeedDependency"

(***************************************************************************)
(* C19.  validate_setup_flow, replaying the list in order, fails with      *)
(* DependencyAnalysisFailed exactly when some requirement has a dependency *)
(* that is not in the satisfied set at that point, the set of the targets  *)
(* parsed from the descriptions of all earlier requirements (the text      *)
(* after "for ", otherwise the word after "Initialize "); otherwise it     *)
(* returns true.                                                           *)
(***************************************************************************)
C19_FailsIffSomeDependencyUnsatisfied ==
  pc = "validated" =>
    IF EveryDependencySatisfiedEarlier(setup_requirements)
      THEN outcome.status = "ok"
      ELSE outcome.status = "err" /\ outcome.error = "DependencyAnalysisFailed"

\* a list that passes with a dependency met through each rule, the keypair's target
\* through "for " and the PDA's through "Initialize "
C19_Witness ==
  /\ pc = "validated"
  /\ outcome.status = "ok"
  /\ \E i, j \in 1..Len(setup_requirements) :
       /\ i < j
       /\ setup_requirements[i].requirement_type = "CreateKeypair"
       /\ setup_requirements[j].dependencies # <<>>
       /\ Chars[setup_requirements[j].dependencies[1]]
            = SplitSecond(setup_requirements[i].description, ForSeparator)
  /\ \E i, j \in 1..Len(setup_requirements) :
       /\ i < j
       /\ setup_requirements[i].requirement_type = "InitializePda"
       /\ setup_requirements[j].dependencies # <<>>
       /\ Chars[setup_requirements[j].dependencies[1]]
            = SplitFirst(SplitSecond(setup_requirements[i].description, InitializePrefix))

\* the edges account_name -> depends_on of a dependency list
DependsOnPairs(dependencies) ==
  UNION {{<<dependencies[i].account_name, dependencies[i].depends_on[k]>> :
            k \in 1..Len(dependencies[i].depends_on)} : i \in 1..Len(dependencies)}

(***************************************************************************)
(* C20.  validate_account_flow fails with CircularDependency if and only   *)
(* if the account_name -> depends_on graph of the given dependencies       *)
(* contains a directed cycle (an account depending on itself counts as a   *)
(* cycle); otherwise it returns true, treating a depends_on name that is   *)
(* not an account in the list as a leaf.                                   *)
(***************************************************************************)
C20_FailsIffDependsOnGraphHasCycle ==
  pc = "flow_validated" =>
    IF Acyclic(DependsOnPairs(account_dependencies))
      THEN outcome.status = "ok"
      ELSE outcome.status = "err" /\ outcome.error = "CircularDependency"

\* an acyclic list accepted although two paths meet in one account and a name is external
C20_Witness ==
  /\ pc = "flow_validated"
  /\ outcome.status = "ok"
  /\ Len(account_dependencies) = MaxDependencyEntries
  /\ \E i, j \in 1..Len(account_dependencies) :
       /\ i # j
       /\ account_dependencies[i].depends_on
            = <<account_dependencies[j].account_name, "authority">>
  /\ Cardinality(DependsOnPairs(account_dependencies)) >= 4

\* a cycle through all three accounts, and a self-dependency, both rejected
C20_WitnessCycle ==
  /\ pc = "flow_validated"
  /\ outcome.status = "err"
  /\ <<"user", "vault">> \in DependsOnPairs(account_dependencies)
  /\ <<"vault", "entry">> \in DependsOnPairs(account_dependencies)
  /\ <<"entry", "user">> \in DependsOnPairs(account_dependencies)

(***************************************************************************)
(* C21.  In the list generate_account_dependencies returns, the entry at   *)
(* 0-based position k has initialization_order = min(k, 255): ordinals     *)
(* start at 0, increase by exactly one per emitted entry, and saturate at  *)
(* the 8-bit maximum instead of wrapping around.                           *)
(***************************************************************************)
C21_OrdinalIsPositionSaturating ==
  /\ pc = "generated" => outcome.status = "ok"
  /\ \A p \in 1..Len(account_dependencies) :
       account_dependencies[p].initialization_order = IF p - 1 < 255 THEN p - 1 ELSE 255

\* a list longer than 256 entries, of both kinds
C21_Witness ==
  /\ pc = "generated"
  /\ Len(account_dependencies) > 256
  /\ account_dependencies[1].must_be_initialized
  /\ ~account_dependencies[Len(account_dependencies)].must_be_initialized
  /\ account_dependencies[Len(account_dependencies)].initialization_order = 255

\* the registry accounts no instruction initializes, in registry order
ExternalAccounts ==
  LET HasNoInitializer(account) == account.initialized_by = None
  IN SelectSeq(account_registry, HasNoInitializer)

(***************************************************************************)
(* C22.  Every registry account with no initializer appears exactly once   *)
(* in account_dependencies, after all accounts initialized by instructions *)
(* of the execution order, in registry order, with empty depends_on and    *)
(* must_be_initialized = false, and with ordinals continuing the sequence  *)
(* of the initialized accounts.                                            *)
(***************************************************************************)
C22_ExternalAccountsAreAppended ==
  Passed("order") =>
    LET initialized == Len(account_dependencies) - Len(ExternalAccounts)
    IN /\ initialized >= 0
       /\ \A p \in 1..initialized : account_dependencies[p].must_be_initialized
       /\ \A e \in 1..Len(ExternalAccounts) :
            LET entry == account_dependencies[initialized + e]
            IN /\ entry.account_name = ExternalAccounts[e].name
               /\ entry.depends_on = <<>>
               /\ ~entry.must_be_initialized
               /\ entry.initialization_order = initialized + e - 1
               /\ Cardinality({p \in 1..Len(account_dependencies) :
                                 account_dependencies[p].account_name = entry.account_name}) = 1

\* two external accounts appended behind an initialized one
C22_Witness ==
  /\ Passed("order")
  /\ Len(ExternalAccounts) >= 2
  /\ Len(account_dependencies) > Len(ExternalAccounts)
  /\ \E r \in 1..Len(account_registry) :
       /\ account_registry[r].initialized_by = None
       /\ \E q \in (r + 1)..Len(account_registry) : account_registry[q].initialized_by # None

\* the positions of pda_init_sequence that carry the account's name
PdaInitsOf(account_name) ==
  {p \in 1..Len(pda_init_sequence) : pda_init_sequence[p].account_name = account_name}

(***************************************************************************)
(* C23.  detect_pdas returns exactly one PdaInit per registry account with *)
(* is_pda = true (none for non-PDA accounts, and no PDA lost or duplicated *)
(* by the sorting step), each carrying that account's seeds in their       *)
(* original order with the same kind and value.                            *)
(***************************************************************************)
C23_OnePdaInitPerPdaAccount ==
  Passed("pdas") =>
    /\ \A r \in 1..Len(account_registry) :
         Cardinality(PdaInitsOf(account_registry[r].name))
           = IF account_registry[r].is_pda THEN 1 ELSE 0
    /\ \A p \in 1..Len(pda_init_sequence) :
         \E r \in 1..Len(account_registry) :
           /\ account_registry[r].name = pda_init_sequence[p].account_name
           /\ Len(pda_init_sequence[p].seeds) = Len(account_registry[r].seeds)
           /\ \A k \in 1..Len(account_registry[r].seeds) :
                /\ pda_init_sequence[p].seeds[k].seed_type = account_registry[r].seeds[k].seed_type
                /\ pda_init_sequence[p].seeds[k].value = account_registry[r].seeds[k].value

\* two PDAs, one of them with a literal seed and an account seed, next to an account
\* that is no PDA
C23_Witness ==
  /\ Passed("pdas")
  /\ Len(pda_init_sequence) = 2
  /\ \E r \in 1..Len(account_registry) : ~account_registry[r].is_pda
  /\ \E p \in 1..Len(pda_init_sequence) :
       /\ Len(pda_init_sequence[p].seeds) = 2
       /\ pda_init_sequence[p].seeds[1].seed_type = "Static"
       /\ pda_init_sequence[p].seeds[2].seed_type = "AccountKey"

IntegerFieldTypes == {"u8", "u16", "u32", "u64", "u128", "i8", "i16", "i32", "i64", "i128"}

(***************************************************************************)
(* C24.  Every argument of an integer type (u8, u16, u32, u64, u128, i8,   *)
(* i16, i32, i64, i128) gets the constraints Min{0} and NonZero, every     *)
(* string argument gets MinLength{1} and MaxLength{100}, and arguments of  *)
(* any other type get no constraints.                                      *)
(***************************************************************************)
C24_ConstraintsFollowTheType ==
  (pc = "returned" /\ outcome.status = "ok") =>
    \A k \in 1..Len(test_cases) :
      /\ Len(test_cases[k].arguments) = Len(DeclaredArgs(k))
      /\ \A a \in 1..Len(DeclaredArgs(k)) :
           test_cases[k].arguments[a].constraints
             = IF DeclaredArgs(k)[a].field_type \in IntegerFieldTypes
                 THEN <<Constraint("Min", 0), Constraint("NonZero", 0)>>
               ELSE IF DeclaredArgs(k)[a].field_type = "string"
                 THEN <<Constraint("MinLength", 1), Constraint("MaxLength", 100)>>
               ELSE <<>>

\* per Min or Max constraint, in argument order, the name of the argument that carries it
RECURSIVE BoundedArguments(_)
BoundedArguments(arguments) ==
  IF arguments = <<>> THEN <<>>
  ELSE LET IsBound(constraint) == constraint.kind \in {"Min", "Max"}
           bounds == SelectSeq(Head(arguments).constraints, IsBound)
       IN [b \in 1..Len(bounds) |-> Head(arguments).name] \o BoundedArguments(Tail(arguments))

(***************************************************************************)
(* C25.  For every instruction, positive_cases consists of exactly one     *)
(* baseline case holding one Valid value for each argument, followed by    *)
(* exactly one boundary case per Min or Max constraint on any argument, in *)
(* argument order; every positive case has type Positive and expected      *)
(* outcome Success.                                                        *)
(***************************************************************************)
C25_BaselineThenBoundaryCases ==
  (pc = "returned" /\ outcome.status = "ok") =>
    \A k \in 1..Len(test_cases) :
      LET arguments == test_cases[k].arguments
          cases == test_cases[k].positive_cases
          bounded == BoundedArguments(arguments)
      IN /\ Len(cases) = 1 + Len(bounded)
         /\ Len(cases[1].argument_values) = Len(arguments)
         /\ \A a \in 1..Len(arguments) :
              /\ cases[1].argument_values[a].argument_name = arguments[a].name
              /\ cases[1].argument_values[a].valid
         /\ \A b \in 1..Len(bounded) :
              /\ Len(cases[1 + b].argument_values) = 1
              /\ cases[1 + b].argument_values[1].argument_name = bounded[b]
              /\ cases[1 + b].argument_values[1].valid
         /\ \A c \in 1..Len(cases) :
              /\ cases[c].test_type = "Positive"
              /\ cases[c].expected_outcome.success

\* an instruction with two bounded arguments: a baseline and two boundary cases
C25_Witness ==
  /\ pc = "returned"
  /\ outcome.status = "ok"
  /\ \E k \in 1..Len(test_cases) :
       /\ Len(test_cases[k].positive_cases) = 3
       /\ Len(test_cases[k].positive_cases[1].argument_values) = 2
       /\ test_cases[k].positive_cases[2].argument_values[1].argument_name
            # test_cases[k].positive_cases[3].argument_values[1].argument_name

\* the values the cases declare: <<argument name, value>> of every argument value of a
\* case with that validity and that outcome
DeclaredValues(cases, valid, success) ==
  UNION {{<<cases[c].argument_values[v].argument_name, cases[c].argument_values[v].description>> :
            v \in {w \in 1..Len(cases[c].argument_values) :
                     cases[c].argument_values[w].valid = valid}} :
         c \in {d \in 1..Len(cases) : cases[d].expected_outcome.success = success}}

(***************************************************************************)
(* C26.  Within the test cases generated for one instruction, no value of  *)
(* an argument is both declared Valid with expected outcome Success in a   *)
(* positive case and declared Invalid with expected outcome Failure in a   *)
(* negative case (for example the value 0 of an unsigned integer argument).*)
(***************************************************************************)
C26_NoValueBothValidAndInvalid ==
  (pc = "returned" /\ outcome.status = "ok") =>
    \A k \in 1..Len(test_cases) :
      DeclaredValues(test_cases[k].positive_cases, TRUE, TRUE)
        \cap DeclaredValues(test_cases[k].negative_cases, FALSE, FALSE) = {}

(***************************************************************************)
(* C27.  Every TestMetadata the pipeline produces from a storable IDL (at  *)
(* most 3 instructions, at most 5 arguments each) fits the declared        *)
(* maximum lengths of the persisted types: per instruction at most 3       *)
(* arguments, at most 3 positive cases and at most 3 negative cases, and   *)
(* at most 3 argument values per test case.                                *)
(***************************************************************************)
C27_TestCasesFitTheirMaxLen ==
  (pc = "done" /\ Len(idl) <= 3 /\ \A i \in 1..Len(idl) : Len(idl[i].args) <= 5) =>
    \A k \in 1..Len(TestMetadata.test_cases) :
      LET entry == TestMetadata.test_cases[k]
      IN /\ Len(entry.arguments) <= 3
         /\ Len(entry.positive_cases) <= 3
         /\ Len(entry.negative_cases) <= 3
         /\ \A c \in 1..Len(entry.positive_cases) :
              Len(entry.positive_cases[c].argument_values) <= 3
         /\ \A c \in 1..Len(entry.negative_cases) :
              Len(entry.negative_cases[c].argument_values) <= 3

RECURSIVE SumOfTestCounts(_)
SumOfTestCounts(programs_tested) ==
  IF programs_tested = <<>> THEN 0
  ELSE Head(programs_tested).test_count + SumOfTestCounts(Tail(programs_tested))

(***************************************************************************)
(* C29.  After UserConfig.initialize followed by any sequence of           *)
(* update_after_generation calls, programs_tested holds at most one entry  *)
(* per program_id, and total_tests_generated equals the number of calls,   *)
(* which equals the sum of test_count over all entries of programs_tested. *)
(***************************************************************************)
C29_OneEntryPerProgramAndCountsAgree ==
  pc = "user_ready" =>
    /\ \A i, j \in 1..Len(user_config.programs_tested) :
         user_config.programs_tested[i].program_id = user_config.programs_tested[j].program_id
           => i = j
    /\ user_config.total_tests_generated = Len(generations)
    /\ SumOfTestCounts(user_config.programs_tested) = Len(generations)
    /\ \A i \in 1..Len(user_config.programs_tested) :
         user_config.programs_tested[i].test_count
           = Occurrences(generations, user_config.programs_tested[i].program_id)

\* every program tested, one of them more than once and not in a row
C29_Witness ==
  /\ pc = "user_ready"
  /\ Len(user_config.programs_tested) = Cardinality(TestedPrograms)
  /\ Len(generations) = MaxGenerations
  /\ generations[1] = generations[MaxGenerations]
  /\ generations[1] # generations[2]

BagOfSeq(seq) == [x \in {seq[i] : i \in 1..Len(seq)} |-> Occurrences(seq, x)]

(***************************************************************************)
(* C30.  Throughout select_instruction_order_interactive, under any        *)
(* sequence of Up, Down, Enter and 'd' events, the selected list followed  *)
(* by the available list is a permutation of the input instructions        *)
(* (nothing lost or duplicated), the cursor is 0 or less than the number   *)
(* of available instructions, and the function returns Ok only with a      *)
(* non-empty selection.                                                    *)
(***************************************************************************)
C30_SelectionIsPermutationAndCursorInRange ==
  pc \in {"selecting", "returned"} =>
    /\ Len(selected_instructions) + Len(available_instructions) = Len(instructions)
    /\ BagOfSeq(selected_instructions \o available_instructions) = BagOfSeq(instructions)
    /\ cursor = 0 \/ cursor < Len(available_instructions)
    /\ (pc = "returned" /\ outcome.status = "ok") => selected_instructions # <<>>

\* returned Ok after moving down and selecting out of the input order, some left over
C30_Witness ==
  /\ pc = "returned"
  /\ outcome.status = "ok"
  /\ Len(instructions) = MaxSelectable
  /\ Len(selected_instructions) >= 2
  /\ available_instructions # <<>>
  /\ selected_instructions[1] = instructions[Len(instructions)]
  /\ selected_instructions[1] # instructions[1]
  /\ cursor > 0

CarriesDiscriminator ==
  Len(idl_storage.data) >= 1 /\ idl_storage.data[1] = IdlStorageDiscriminator

StoredAuthorityIsSigner == Len(idl_storage.data) >= 2 /\ idl_storage.data[2] = Signer

StoredProgramIsArgument == Len(idl_storage.data) >= 3 /\ idl_storage.data[3] = ProgramId

AccountsUntouched ==
  /\ user_config = InitializeUserConfig(Signer)
  /\ test_metadata_config = NoAccount

RejectedBeforeAnalysis(error) ==
  /\ pc = "failed"
  /\ outcome.status = "err"
  /\ outcome.stage = "idl_storage"
  /\ outcome.error = error
  /\ account_registry = <<>>
  /\ AccountsUntouched

(***************************************************************************)
(* C28.  generate_metadata runs the analysis and writes user_config and    *)
(* test_metadata_config only when the IDL storage account carries the      *)
(* IdlStorage discriminator, its stored authority equals the signing       *)
(* authority and its stored program id equals the program_id argument;     *)
(* otherwise it fails with InvalidAccountData, Unauthorized or             *)
(* InvalidProgramId respectively, before any analysis, leaving both        *)
(* accounts unchanged.                                                     *)
(***************************************************************************)
C28_WritesOnlyForMatchingIdlStorage ==
  pc # "generate_metadata" =>
    /\ ~CarriesDiscriminator => RejectedBeforeAnalysis("InvalidAccountData")
    /\ CarriesDiscriminator /\ ~StoredAuthorityIsSigner => RejectedBeforeAnalysis("Unauthorized")
    /\ CarriesDiscriminator /\ StoredAuthorityIsSigner /\ ~StoredProgramIsArgument
         => RejectedBeforeAnalysis("InvalidProgramId")
    /\ (~AccountsUntouched \/ account_registry # <<>>)
         => CarriesDiscriminator /\ StoredAuthorityIsSigner /\ StoredProgramIsArgument

\* a matching account whose analysis succeeded: both accounts written
C28_Stored ==
  /\ pc = "stored"
  /\ test_metadata_config.initialized
  /\ user_config.total_tests_generated = 1

====
